---------------------------- MODULE Spec2Model ----------------------------
(***************************************************************************)
(* A model of the rr HTTP/1.x client engine (Lemonnnnnnnnnnn/rr).          *)
(*                                                                         *)
(* Bytes are modelled as one-character strings; a byte string is a         *)
(* sequence of them.  The byte 0xFF (never valid in UTF-8) is the string   *)
(* "xFF"; the three bytes of U+FFFD, which String::from_utf8_lossy writes   *)
(* in its place, are "xEF", "xBF", "xBD".                                  *)
(*                                                                         *)
(* The module holds several specifications over one set of variables:      *)
(*   SpecChunked   ChunkedParser::parse on chunk-framed input              *)
(*   SpecUrl       parse_host_port on URL strings                           *)
(*   SpecRequest   Request::new, header, body and serialize                 *)
(*   SpecResponse  Response::from_raw_bytes on raw responses                 *)
(*   SpecCall      HttpClient::send_request, from the URL to the Response    *)
(*   SpecClient    concurrent calls of send_request, and their TcpStreams     *)
(*   SpecInit      concurrent calls of init_crypto_provider                   *)
(*   SpecHeaders   HeaderMap::insert, get, contains_key, remove and merge     *)
(*   SpecTunnel    the read loop of establish_tunnel, by the numbers of bytes   *)
(***************************************************************************)
EXTENDS Integers, Sequences, FiniteSets, TLC

VARIABLES
    chunks,     \* SpecChunked: the chunks framed so far, <<[data, ext], ...>>
    cinput,     \* SpecChunked: the bytes handed to ChunkedParser::parse
    cres,       \* SpecChunked: the Result of ChunkedParser::parse
    cbuild,     \* SpecChunked: TRUE when the build traps integer overflow
    cend,       \* SpecChunked: how the stream ends {fault, tail}
    cpc,        \* SpecChunked: "build" | "framed" | "parsed"
    ucomp,      \* SpecUrl: the parts the URL string was written from
    uinput,     \* SpecUrl: the URL string handed to parse_host_port
    ures,       \* SpecUrl: what parse_host_port returned
    upc,        \* SpecUrl: "input" | "resolved"
    rq,         \* SpecRequest: the Request {method, url, headers, body}
    rcaller,    \* SpecRequest: the headers the caller set with header()
    rclient,    \* SpecRequest: the HttpClient the request is sent with, if it was sent
    rser,       \* SpecRequest: what Request::serialize returned
    rpc,        \* SpecRequest: "building" | "serialized"
    pparts,     \* SpecResponse: the parts the raw response was written from
    praw,       \* SpecResponse: the bytes handed to Response::from_raw_bytes
    pres,       \* SpecResponse: what Response::from_raw_bytes returned
    ppc,        \* SpecResponse: "input" | "parsed"
    call,       \* SpecCall: the call {url, proxy}: the request URL, proxy configured
    pc,         \* SpecCall: the stage HttpClient::send_request is at
    target,     \* SpecCall: the ParsedUrl of the call, None before it is resolved
    sockets,    \* SpecCall: the number of TCP connections opened
    socket,     \* SpecCall: the writes made to the socket, in order
    proxy_in,   \* SpecCall: the bytes the proxy sends before it closes
    tunnel,     \* SpecCall: establish_tunnel {response, total_read, state}
    request_str,\* SpecCall: the serialized request
    server_in,  \* SpecCall: the bytes the server sends before it closes
    received,   \* SpecCall: the bytes read from the server so far
    scenario,   \* SpecCall: what the server answers {framing, payload, cut, ends}
    outcome,    \* SpecCall: what send_request returned
    client,     \* SpecClient: the HttpClient {proxy_config, default_headers}
    calls,      \* SpecClient: the locals of each call of send_request
    streams,    \* SpecClient: the TcpStreams opened, in order {open, inbox, log}
    once,       \* SpecInit: the state of TLS_INIT
    provider,   \* SpecInit: the process-wide default CryptoProvider
    installs,   \* SpecInit: the runs of init_crypto_provider_internal
    callers,    \* SpecInit: the locals of each call of init_crypto_provider
    hmap,       \* SpecHeaders: the HeaderMap (its inner HashMap)
    hlast,      \* SpecHeaders: the last operation and what it returned
    pstream,    \* SpecTunnel: the bytes of the proxy {head, len, term, pos}
    ploop       \* SpecTunnel: establish_tunnel {total_read, response_len, state, result}

chunkedVars == <<chunks, cinput, cres, cbuild, cend, cpc>>
urlVars == <<ucomp, uinput, ures, upc>>
requestVars == <<rq, rcaller, rclient, rser, rpc>>
responseVars == <<pparts, praw, pres, ppc>>
callVars == <<call, pc, target, sockets, socket, proxy_in, tunnel, request_str,
              server_in, received, scenario, outcome>>

clientVars == <<client, calls, streams>>
initVars == <<once, provider, installs, callers>>
headerVars == <<hmap, hlast>>
tunnelVars == <<pstream, ploop>>

vars == <<chunkedVars, urlVars, requestVars, responseVars, callVars,
          clientVars, initVars, headerVars, tunnelVars>>

\* What the actions of one specification leave alone
ChunkedOnly == UNCHANGED <<urlVars, requestVars, responseVars, callVars,
                           clientVars, initVars, headerVars, tunnelVars>>
UrlOnly == UNCHANGED <<chunkedVars, requestVars, responseVars, callVars,
                       clientVars, initVars, headerVars, tunnelVars>>
RequestOnly == UNCHANGED <<chunkedVars, urlVars, responseVars, callVars,
                           clientVars, initVars, headerVars, tunnelVars>>
ResponseOnly == UNCHANGED <<chunkedVars, urlVars, requestVars, callVars,
                            clientVars, initVars, headerVars, tunnelVars>>
CallOnly == UNCHANGED <<chunkedVars, urlVars, requestVars, responseVars,
                        clientVars, initVars, headerVars, tunnelVars>>
ClientOnly == UNCHANGED <<chunkedVars, urlVars, requestVars, responseVars, callVars,
                          initVars, headerVars, tunnelVars>>
InitOnly == UNCHANGED <<chunkedVars, urlVars, requestVars, responseVars, callVars,
                        clientVars, headerVars, tunnelVars>>
HeadersOnly == UNCHANGED <<chunkedVars, urlVars, requestVars, responseVars, callVars,
                           clientVars, initVars, tunnelVars>>
TunnelOnly == UNCHANGED <<chunkedVars, urlVars, requestVars, responseVars, callVars,
                          clientVars, initVars, headerVars>>

-----------------------------------------------------------------------------
(* Bytes and strings                                                       *)

CR == "\r"
LF == "\n"
SP == " "
HT == "\t"
CRLF == <<CR, LF>>
CRLFCRLF == <<CR, LF, CR, LF>>

\* char::is_whitespace, restricted to the bytes of the model
WhiteSpace == {SP, HT, CR, LF}

Digits == <<"0", "1", "2", "3", "4", "5", "6", "7", "8", "9">>
LowerHex == <<"a", "b", "c", "d", "e", "f">>
UpperHex == <<"A", "B", "C", "D", "E", "F">>

\* The index of the first c in the sequence s, 0 when c is not in it
IndexOf(s, c) == IF \E i \in 1..Len(s) : s[i] = c
                 THEN CHOOSE i \in 1..Len(s) : s[i] = c /\ \A j \in 1..(i - 1) : s[j] # c
                 ELSE 0

Min(a, b) == IF a < b THEN a ELSE b

RECURSIVE Flatten(_)
Flatten(ss) == IF ss = <<>> THEN <<>> ELSE Head(ss) \o Flatten(Tail(ss))

\* slice.windows(n).position(|w| w == pat): the 0-based offset of the first
\* occurrence of pat in s, -1 for None
Position(s, pat) ==
    LET n == Len(pat)
        hits == {i \in 0..(Len(s) - n) : SubSeq(s, i + 1, i + n) = pat}
    IN  IF hits = {} THEN -1 ELSE CHOOSE i \in hits : \A j \in hits : i <= j

\* &s[from..] with a 0-based offset
From(s, from) == SubSeq(s, from + 1, Len(s))

\* &s[..to] with a 0-based exclusive end
UpTo(s, to) == SubSeq(s, 1, to)

\* str::trim
RECURSIVE TrimStart(_)
TrimStart(s) == IF s # <<>> /\ Head(s) \in WhiteSpace THEN TrimStart(Tail(s)) ELSE s

RECURSIVE TrimEnd(_)
TrimEnd(s) == IF s # <<>> /\ s[Len(s)] \in WhiteSpace
              THEN TrimEnd(SubSeq(s, 1, Len(s) - 1)) ELSE s

Trim(s) == TrimEnd(TrimStart(s))

\* String::from_utf8_lossy: every invalid byte becomes U+FFFD (EF BF BD)
RECURSIVE from_utf8_lossy(_)
from_utf8_lossy(b) ==
    IF b = <<>> THEN <<>>
    ELSE (IF Head(b) = "xFF" THEN <<"xEF", "xBF", "xBD">> ELSE <<Head(b)>>)
         \o from_utf8_lossy(Tail(b))

\* String::from_utf8(..).is_ok()
is_utf8(b) == \A i \in 1..Len(b) : b[i] # "xFF"

\* s.split(c).next(): the part of s before the first c
SplitNext(s, c) == IF IndexOf(s, c) = 0 THEN s ELSE SubSeq(s, 1, IndexOf(s, c) - 1)

\* str::contains
Contains(s, pat) == Position(s, pat) # -1

\* str::lines: lines end at LF, a CR before that LF is dropped with it, and
\* the text after the last LF is a line when it is not empty
RECURSIVE Lines(_)
Lines(s) ==
    IF s = <<>> THEN <<>>
    ELSE IF IndexOf(s, LF) = 0 THEN <<s>>
    ELSE <<(IF IndexOf(s, LF) > 1 /\ s[IndexOf(s, LF) - 1] = CR
            THEN SubSeq(s, 1, IndexOf(s, LF) - 2)
            ELSE SubSeq(s, 1, IndexOf(s, LF) - 1))>>
         \o Lines(SubSeq(s, IndexOf(s, LF) + 1, Len(s)))

\* str::split_whitespace().collect()
RECURSIVE split_whitespace(_)
split_whitespace(s) ==
    IF TrimStart(s) = <<>> THEN <<>>
    ELSE LET t == TrimStart(s)
             e == IF \E i \in 1..Len(t) : t[i] \in WhiteSpace
                  THEN (CHOOSE i \in 1..Len(t) :
                          t[i] \in WhiteSpace /\ \A j \in 1..(i - 1) : t[j] \notin WhiteSpace) - 1
                  ELSE Len(t)
         IN  <<SubSeq(t, 1, e)>> \o split_whitespace(SubSeq(t, e + 1, Len(t)))

\* [..].join(sep)
RECURSIVE Join(_, _)
Join(parts, sep) ==
    IF parts = <<>> THEN <<>>
    ELSE IF Len(parts) = 1 THEN parts[1]
    ELSE parts[1] \o sep \o Join(Tail(parts), sep)

Letters == <<"a", "b", "c", "d", "e", "f", "g", "h", "i", "j", "k", "l", "m",
             "n", "o", "p", "q", "r", "s", "t", "u", "v", "w", "x", "y", "z">>
Capitals == <<"A", "B", "C", "D", "E", "F", "G", "H", "I", "J", "K", "L", "M",
              "N", "O", "P", "Q", "R", "S", "T", "U", "V", "W", "X", "Y", "Z">>

\* str::to_lowercase
to_lowercase(s) ==
    [i \in 1..Len(s) |->
        IF IndexOf(Capitals, s[i]) # 0 THEN Letters[IndexOf(Capitals, s[i])] ELSE s[i]]

S_transfer_encoding ==
    <<"t", "r", "a", "n", "s", "f", "e", "r", "-", "e", "n", "c", "o", "d", "i", "n", "g">>
S_chunked == <<"c", "h", "u", "n", "k", "e", "d">>

-----------------------------------------------------------------------------
(* Results                                                                 *)

Ok(v) == [ok |-> TRUE, val |-> v]
Err(kind, msg) == [ok |-> FALSE, kind |-> kind, msg |-> msg]

\* An error whose message is format!(fmt, arg)
ErrFmt(kind, fmt, arg) == [ok |-> FALSE, kind |-> kind, msg |-> fmt, arg |-> arg]

\* A panic unwinding out of the call
Panic(msg) == [ok |-> FALSE, kind |-> "panic", msg |-> msg]

-----------------------------------------------------------------------------
(* Integers of the machine                                                 *)

\* The width of usize in the model
UsizeBits == 16

RECURSIVE Pow2(_)
Pow2(n) == IF n = 0 THEN 1 ELSE 2 * Pow2(n - 1)

UsizeMax == Pow2(UsizeBits) - 1

\* char::to_digit(radix): -1 for None
ToDigit(c, radix) ==
    LET d == IF IndexOf(Digits, c) # 0 THEN IndexOf(Digits, c) - 1
             ELSE IF IndexOf(LowerHex, c) # 0 THEN 9 + IndexOf(LowerHex, c)
             ELSE IF IndexOf(UpperHex, c) # 0 THEN 9 + IndexOf(UpperHex, c)
             ELSE -1
    IN  IF d < radix THEN d ELSE -1

\* The digits loop of {integer}::from_str_radix for an unsigned type of
\* maximum max: -1 for Err (an invalid digit, or overflow)
RECURSIVE ParseDigits(_, _, _, _)
ParseDigits(s, radix, max, acc) ==
    IF s = <<>> THEN acc
    ELSE LET d == ToDigit(Head(s), radix)
         IN  IF d = -1 THEN -1
             ELSE IF acc > (max - d) \div radix THEN -1
             ELSE ParseDigits(Tail(s), radix, max, acc * radix + d)

\* {unsigned}::from_str_radix(s, radix): an empty string, a lone sign, a '-',
\* an invalid digit and overflow are errors; one leading '+' is accepted
FromStrRadix(s, radix, max) ==
    IF s = <<>> THEN -1
    ELSE IF Head(s) = "+"
         THEN (IF Tail(s) = <<>> THEN -1 ELSE ParseDigits(Tail(s), radix, max, 0))
         ELSE ParseDigits(s, radix, max, 0)

\* {integer}::to_string
RECURSIVE ToDec(_)
ToDec(n) == IF n < 10 THEN <<Digits[n + 1]>>
            ELSE ToDec(n \div 10) \o <<Digits[(n % 10) + 1]>>

-----------------------------------------------------------------------------
(* Url::parse of the url crate, as parse_host_port uses it (src/utils.rs)   *)

\* Option<T>: None is the empty sequence, Some(x) the sequence of x alone
None == <<>>
Some(x) == <<x>>
Unwrap(o) == o[1]

S_http == <<"h", "t", "t", "p">>
S_https == <<"h", "t", "t", "p", "s">>

\* The schemes the URL standard calls special, with their default ports
SpecialSchemes == {S_http, S_https, <<"f", "t", "p">>, <<"w", "s">>, <<"w", "s", "s">>, <<"f", "i", "l", "e">>}

DefaultPort(scheme) ==
    IF scheme \in {S_http, <<"w", "s">>} THEN Some(80)
    ELSE IF scheme \in {S_https, <<"w", "s", "s">>} THEN Some(443)
    ELSE IF scheme = <<"f", "t", "p">> THEN Some(21)
    ELSE None

IsAlpha(c) == IndexOf(Letters, c) # 0 \/ IndexOf(Capitals, c) # 0
IsDigit(c) == IndexOf(Digits, c) # 0

\* The 0-based offset of the first byte of s that is in the set stop,
\* Len(s) when there is none
FirstOf(s, stop) ==
    LET hits == {i \in 1..Len(s) : s[i] \in stop}
    IN  IF hits = {} THEN Len(s) ELSE (CHOOSE i \in hits : \A j \in hits : i <= j) - 1

\* The 0-based offset of the last c in s, -1 when there is none
LastIndexOf(s, c) ==
    LET hits == {i \in 1..Len(s) : s[i] = c}
    IN  IF hits = {} THEN -1 ELSE (CHOOSE i \in hits : \A j \in hits : i >= j) - 1

RECURSIVE SkipSlashes(_)
SkipSlashes(s) == IF s # <<>> /\ Head(s) \in {"/", "\\"} THEN SkipSlashes(Tail(s)) ELSE s

\* The port of an authority: None when absent, empty or the scheme's
\* default; an error when it is not a number of 16 bits
UrlPort(portstr, scheme) ==
    IF portstr = <<>> THEN Ok(None)
    ELSE IF \E i \in 1..Len(portstr) : ~IsDigit(portstr[i])
         THEN Err("ParseError", "InvalidPort")
    ELSE LET n == ParseDigits(portstr, 10, 65535, 0)
         IN  IF n = -1 THEN Err("ParseError", "InvalidPort")
             ELSE IF Some(n) = DefaultPort(scheme) THEN Ok(None) ELSE Ok(Some(n))

\* Path, query and fragment of what follows the authority
UrlTail(rest, special) ==
    LET pathEnd == FirstOf(rest, {"?", "#"})
        path == UpTo(rest, pathEnd)
        afterPath == From(rest, pathEnd)
        hasQuery == afterPath # <<>> /\ Head(afterPath) = "?"
    IN  [path |-> IF special /\ path = <<>> THEN <<"/">> ELSE path,
         query |-> IF hasQuery
                   THEN Some(UpTo(Tail(afterPath), FirstOf(Tail(afterPath), {"#"})))
                   ELSE None]

\* Url::parse(input) with no base URL.  Covers scheme, authority (host and
\* port, no userinfo, no IPv6 literal), path and query; percent-encoding and
\* dot-segment removal are not modelled.
UrlParse(input) ==
    LET s == Trim(input)
        colon == IndexOf(s, ":")
        scheme == to_lowercase(SubSeq(s, 1, colon - 1))
        validScheme ==
            /\ colon > 1
            /\ IsAlpha(s[1])
            /\ \A i \in 1..(colon - 1) :
                 IsAlpha(s[i]) \/ IsDigit(s[i]) \/ s[i] \in {"+", "-", "."}
        afterColon == SubSeq(s, colon + 1, Len(s))
        special == scheme \in SpecialSchemes
        isFile == scheme = <<"f", "i", "l", "e">>
        hasAuthority ==
            IF special /\ ~isFile THEN TRUE
            ELSE Len(afterColon) >= 2 /\ SubSeq(afterColon, 1, 2) = <<"/", "/">>
        afterSlashes == IF special /\ ~isFile THEN SkipSlashes(afterColon)
                        ELSE From(afterColon, 2)
        authEnd == FirstOf(afterSlashes,
                           IF special THEN {"/", "\\", "?", "#"} ELSE {"/", "?", "#"})
        authority == UpTo(afterSlashes, authEnd)
        portColon == LastIndexOf(authority, ":")
        hostPart == IF portColon = -1 THEN authority ELSE UpTo(authority, portColon)
        portPart == IF portColon = -1 THEN <<>> ELSE From(authority, portColon + 1)
        port == UrlPort(portPart, scheme)
        tail == UrlTail(From(afterSlashes, authEnd), special)
    IN  IF ~validScheme THEN Err("ParseError", "RelativeUrlWithoutBase")
        ELSE IF ~hasAuthority
             THEN Ok([scheme |-> scheme, host |-> None, port |-> None,
                      path |-> UrlTail(afterColon, FALSE).path,
                      query |-> UrlTail(afterColon, FALSE).query])
        ELSE IF hostPart = <<>> /\ special /\ ~isFile
             THEN Err("ParseError", "EmptyHost")
        ELSE IF ~port.ok THEN port
        ELSE Ok([scheme |-> scheme,
                 host |-> IF hostPart = <<>> THEN None
                          ELSE IF special THEN Some(to_lowercase(hostPart))
                          ELSE Some(hostPart),
                 port |-> port.val, path |-> tail.path, query |-> tail.query])

\* A parse_host_port whose default port is 80 for every scheme
parse_host_port_Port80(url) ==
    LET parsed_url == UrlParse(url)
    IN  IF ~parsed_url.ok THEN Err("UrlParse", parsed_url.msg)
        ELSE IF parsed_url.val.host = None
             THEN Panic("called Option::unwrap() on a None value")
        ELSE Ok([hostname |-> Unwrap(parsed_url.val.host),
                 port |-> IF parsed_url.val.port = None THEN 80
                          ELSE Unwrap(parsed_url.val.port),
                 path |-> parsed_url.val.path,
                 is_https |-> parsed_url.val.scheme = S_https])

\* parse_host_port (src/utils.rs): ParsedUrl {hostname, port, path, is_https}
parse_host_port(url) ==
    LET parsed_url == UrlParse(url)
    IN  IF ~parsed_url.ok THEN Err("UrlParse", parsed_url.msg)
        ELSE IF parsed_url.val.host = None
             THEN Panic("called Option::unwrap() on a None value")
        ELSE LET is_https == parsed_url.val.scheme = S_https
             IN  Ok([hostname |-> Unwrap(parsed_url.val.host),
                     port |-> IF parsed_url.val.port = None
                              THEN (IF is_https THEN 443 ELSE 80)
                              ELSE Unwrap(parsed_url.val.port),
                     path |-> parsed_url.val.path,
                     is_https |-> is_https])

-----------------------------------------------------------------------------
(* Request (src/request/model.rs)                                          *)

S_User_Agent == <<"U", "s", "e", "r", "-", "A", "g", "e", "n", "t">>
S_rust_my_request == <<"r", "u", "s", "t", "-", "m", "y", "-", "r", "e", "q", "u", "e", "s", "t", "/", "0", ".", "1", ".", "0">>
S_Accept == <<"A", "c", "c", "e", "p", "t">>
S_star == <<"*", "/", "*">>
S_Connection == <<"C", "o", "n", "n", "e", "c", "t", "i", "o", "n">>
S_close == <<"c", "l", "o", "s", "e">>
S_Content_Length == <<"C", "o", "n", "t", "e", "n", "t", "-", "L", "e", "n", "g", "t", "h">>
S_Host == <<"H", "o", "s", "t">>
S_HTTP_1_1 == <<"H", "T", "T", "P", "/", "1", ".", "1">>

\* HashMap::insert
Insert(map, key, value) ==
    [k \in DOMAIN map \cup {key} |-> IF k = key THEN value ELSE map[k]]

EmptyMap == [k \in {} |-> <<>>]

\* Request::new: the default headers are set here
Request_new(method, url) ==
    [method |-> method,
     url |-> url,
     headers |-> Insert(Insert(Insert(EmptyMap, S_User_Agent, S_rust_my_request),
                               S_Accept, S_star),
                        S_Connection, S_close),
     body |-> None]

\* Request::header
Request_header(req, key, value) ==
    [req EXCEPT !.headers = Insert(req.headers, key, value)]

\* Request::body: Content-Length is set only when the map has none
Request_body(req, body) ==
    [req EXCEPT !.body = Some(body),
                !.headers = IF S_Content_Length \in DOMAIN req.headers
                            THEN req.headers
                            ELSE Insert(req.headers, S_Content_Length, ToDec(Len(body)))]

\* format!("{}: {}\r\n", key, value)
HeaderLine(key, value) == key \o <<":", SP>> \o value \o CRLF

\* The orders in which a HashMap with these keys is iterated.  The hasher
\* decides the order; the model draws it from the rotations of one order of
\* the keys and of its reverse, so that every key comes at every place and
\* every two keys come in both orders
Orders(keys) ==
    LET n == Cardinality(keys)
        base == CHOOSE o \in [1..n -> keys] : \A i, j \in 1..n : o[i] = o[j] => i = j
    IN  { [i \in 1..n |-> base[((i + r - 1) % n) + 1]] : r \in 0..(n - 1) }
        \cup { [i \in 1..n |-> base[((n - i + r) % n) + 1]] : r \in 0..(n - 1) }

\* A serialize_to_string that writes the URL of the request as its target
serialize_to_string_AbsoluteTarget(req, parsed_url, order) ==
    req.method \o <<SP>> \o req.url \o <<SP>> \o S_HTTP_1_1 \o CRLF
    \o HeaderLine(S_Host, parsed_url.hostname)
    \o Flatten([i \in 1..Len(order) |-> HeaderLine(order[i], req.headers[order[i]])])
    \o HeaderLine(S_Connection, S_close)
    \o (IF req.body # None
        THEN HeaderLine(S_Content_Length, ToDec(Len(Unwrap(req.body))))
             \o CRLF \o from_utf8_lossy(Unwrap(req.body))
        ELSE CRLF)

\* Request::serialize_to_string, the headers iterated in the given order
serialize_to_string(req, parsed_url, order) ==
    req.method \o <<SP>> \o parsed_url.path \o <<SP>> \o S_HTTP_1_1 \o CRLF
    \o HeaderLine(S_Host, parsed_url.hostname)
    \o Flatten([i \in 1..Len(order) |-> HeaderLine(order[i], req.headers[order[i]])])
    \o HeaderLine(S_Connection, S_close)
    \o (IF req.body # None
        THEN HeaderLine(S_Content_Length, ToDec(Len(Unwrap(req.body))))
             \o CRLF \o from_utf8_lossy(Unwrap(req.body))
        ELSE CRLF)

-----------------------------------------------------------------------------
(* HeaderMap (src/headers/map.rs, src/headers/constants.rs)                *)

\* normalize_header_name: name.to_lowercase().trim()
normalize_header_name(name) == Trim(to_lowercase(name))

\* char::is_control, restricted to the bytes of the model
IsControl(ch) == ch \in {CR, LF, HT}

\* validate_header_name
validate_header_name(name) ==
    IF name = <<>> THEN Err("HttpParse", "Header name cannot be empty")
    ELSE IF \E i \in 1..Len(name) : IsControl(name[i]) \/ name[i] = SP \/ name[i] = HT
    THEN ErrFmt("HttpParse", "Invalid character '{}' at position {} in header name",
                ToDec(FirstOf(name, {CR, LF, HT, SP})))
    ELSE Ok(<<>>)

\* validate_header_value
validate_header_value(value) ==
    IF value # <<>> /\ Head(value) \in {CR, LF}
    THEN Err("HttpParse", "Header value cannot start with CR or LF")
    ELSE Ok(<<>>)

\* HeaderMap::new
HeaderMap_new == EmptyMap

\* A HeaderMap::insert that stores the key as it is written
HeaderMap_insert_AsWritten(inner, key, value) ==
    IF ~validate_header_name(key).ok
    THEN [inner |-> inner, ret |-> validate_header_name(key)]
    ELSE IF ~validate_header_value(value).ok
    THEN [inner |-> inner, ret |-> validate_header_value(value)]
    ELSE [inner |-> Insert(inner, key, value),
          ret |-> Ok(IF key \in DOMAIN inner THEN Some(inner[key]) ELSE None)]

\* HeaderMap::insert: the map after the call and what the call returns
HeaderMap_insert(inner, key, value) ==
    IF ~validate_header_name(key).ok
    THEN [inner |-> inner, ret |-> validate_header_name(key)]
    ELSE IF ~validate_header_value(value).ok
    THEN [inner |-> inner, ret |-> validate_header_value(value)]
    ELSE [inner |-> Insert(inner, normalize_header_name(key), value),
          ret |-> Ok(IF normalize_header_name(key) \in DOMAIN inner
                     THEN Some(inner[normalize_header_name(key)]) ELSE None)]

\* HeaderMap::get
HeaderMap_get(inner, key) ==
    IF normalize_header_name(key) \in DOMAIN inner
    THEN Some(inner[normalize_header_name(key)]) ELSE None

\* HeaderMap::contains_key
HeaderMap_contains_key(inner, key) ==
    normalize_header_name(key) \in DOMAIN inner

\* HeaderMap::remove: the map after the call and what the call returns
HeaderMap_remove(inner, key) ==
    [inner |-> [k \in DOMAIN inner \ {normalize_header_name(key)} |-> inner[k]],
     ret |-> HeaderMap_get(inner, key)]

\* HeaderMap::merge: every entry of other is inserted, whatever the order
HeaderMap_merge(inner, other) ==
    [k \in DOMAIN inner \cup DOMAIN other |->
        IF k \in DOMAIN other THEN other[k] ELSE inner[k]]

-----------------------------------------------------------------------------
(* ChunkedParser (src/chunked.rs)                                          *)

\* A skip_trailer_headers that is content with the first line it finds
skip_trailer_headers_FirstLine(data) ==
    LET line_end == Position(data, CRLF)
    IN  IF line_end = -1 THEN Err("Response", "Invalid trailer format")
        ELSE Ok(From(data, line_end + 2))

\* skip_trailer_headers: the data left after the trailer, or an error
RECURSIVE skip_trailer_headers(_)
skip_trailer_headers(data) ==
    LET line_end == Position(data, CRLF)
    IN  IF line_end = -1 THEN Err("Response", "Invalid trailer format")
        ELSE IF line_end = 0 THEN Ok(From(data, 2))
        ELSE skip_trailer_headers(From(data, line_end + 2))

\* A ChunkSize that does not cut the size line at ';'
ChunkSize_WholeLine(size_line) ==
    FromStrRadix(Trim(from_utf8_lossy(size_line)), 16, UsizeMax)

\* The chunk size of a size line: chunk extensions after ';' are ignored
ChunkSize(size_line) ==
    FromStrRadix(Trim(SplitNext(from_utf8_lossy(size_line), ";")), 16, UsizeMax)

\* The loop of ChunkedParser::parse.  checked: the build traps integer
\* overflow (debug-assertions); otherwise usize arithmetic wraps.
RECURSIVE ParseChunks(_, _, _)
ParseChunks(remaining, result, checked) ==
    LET line_end == Position(remaining, CRLF)
    IN  IF line_end = -1
        THEN Err("Response", "Invalid chunked format: no CRLF found")
        ELSE LET chunk_size == ChunkSize(UpTo(remaining, line_end))
                 rest == From(remaining, line_end + 2)
                 need == IF chunk_size + 2 > UsizeMax
                         THEN chunk_size + 2 - (UsizeMax + 1)
                         ELSE chunk_size + 2
             IN  IF chunk_size = -1 THEN Err("Response", "Invalid chunk size")
                 ELSE IF chunk_size = 0
                      THEN (IF skip_trailer_headers(rest).ok THEN Ok(result)
                            ELSE skip_trailer_headers(rest))
                 ELSE IF chunk_size + 2 > UsizeMax /\ checked
                      THEN Panic("attempt to add with overflow")
                 ELSE IF Len(rest) < need
                      THEN Err("Response", "Incomplete chunk data")
                 ELSE IF chunk_size > Len(rest)
                      THEN Panic("range end index out of range for slice")
                 ELSE ParseChunks(From(rest, chunk_size + 2),
                                  result \o UpTo(rest, chunk_size), checked)

ChunkedParser_parse(data, checked) == ParseChunks(data, <<>>, checked)

\* ChunkedParser::is_chunked on the parsed (lower-cased) header map
is_chunked(headers) ==
    /\ S_transfer_encoding \in DOMAIN headers
    /\ Contains(to_lowercase(headers[S_transfer_encoding]), S_chunked)

-----------------------------------------------------------------------------
(* Response (src/response.rs) and Compression (src/decompression.rs)       *)

S_content_encoding ==
    <<"c", "o", "n", "t", "e", "n", "t", "-", "e", "n", "c", "o", "d", "i", "n", "g">>
S_gzip == <<"g", "z", "i", "p">>
S_deflate == <<"d", "e", "f", "l", "a", "t", "e">>
S_br == <<"b", "r">>

\* Compression::from_content_encoding
from_content_encoding(value) ==
    IF to_lowercase(value) = S_gzip THEN "Gzip"
    ELSE IF to_lowercase(value) = S_deflate THEN "Deflate"
    ELSE IF to_lowercase(value) = S_br THEN "Brotli"
    ELSE "None"

\* decompress: the decoders are libraries outside the repository; decoded is
\* what the decoder of the compression returns for the data
decompress(data, compression, decoded) ==
    IF compression = "None" THEN Ok(data)
    ELSE IF decoded.ok THEN decoded
    ELSE Err("Decompression", decoded.msg)

\* A header loop in which the first of two lines with one key is kept
RECURSIVE ParseHeaderLines_FirstWins(_, _)
ParseHeaderLines_FirstWins(lines, headers) ==
    IF lines = <<>> THEN headers
    ELSE IF Head(lines) = <<>> THEN headers
    ELSE IF IndexOf(Head(lines), ":") = 0 THEN ParseHeaderLines_FirstWins(Tail(lines), headers)
    ELSE IF to_lowercase(Trim(SubSeq(Head(lines), 1, IndexOf(Head(lines), ":") - 1)))
              \in DOMAIN headers
         THEN ParseHeaderLines_FirstWins(Tail(lines), headers)
    ELSE ParseHeaderLines_FirstWins(Tail(lines),
            Insert(headers,
                   to_lowercase(Trim(SubSeq(Head(lines), 1, IndexOf(Head(lines), ":") - 1))),
                   Trim(SubSeq(Head(lines), IndexOf(Head(lines), ":") + 1, Len(Head(lines))))))

\* The header loop of Response::from_raw_bytes: it stops at an empty line,
\* and a line without ':' is passed over
RECURSIVE ParseHeaderLines(_, _)
ParseHeaderLines(lines, headers) ==
    IF lines = <<>> THEN headers
    ELSE IF Head(lines) = <<>> THEN headers
    ELSE IF IndexOf(Head(lines), ":") = 0 THEN ParseHeaderLines(Tail(lines), headers)
    ELSE ParseHeaderLines(Tail(lines),
            Insert(headers,
                   to_lowercase(Trim(SubSeq(Head(lines), 1, IndexOf(Head(lines), ":") - 1))),
                   Trim(SubSeq(Head(lines), IndexOf(Head(lines), ":") + 1, Len(Head(lines))))))

\* The part of Response::from_raw_bytes after the status line is parsed
ResponseOf(status_parts, status_code, headers, body_bytes, decoded) ==
    LET content_encoding == IF S_content_encoding \in DOMAIN headers
                            THEN headers[S_content_encoding] ELSE <<>>
        processed_body == decompress(body_bytes, from_content_encoding(content_encoding), decoded)
    IN  IF ~processed_body.ok THEN processed_body
        ELSE Ok([version |-> status_parts[1],
                 status_code |-> status_code,
                 status_message |-> Join(SubSeq(status_parts, 3, Len(status_parts)), <<SP>>),
                 headers |-> headers,
                 body |-> processed_body.val])

\* Response::from_raw_bytes
from_raw_bytes(raw_response, decoded) ==
    LET header_end == Position(raw_response, CRLFCRLF)
    IN  IF header_end = -1 THEN Err("Response", "Invalid HTTP response format")
        ELSE LET lines == Lines(from_utf8_lossy(UpTo(raw_response, header_end)))
             IN  IF lines = <<>> THEN Err("Response", "Empty response")
                 ELSE LET status_parts == split_whitespace(Head(lines))
                      IN  IF Len(status_parts) < 3
                          THEN Err("Response", "Invalid status line")
                          ELSE IF FromStrRadix(status_parts[2], 10, 65535) = -1
                          THEN Err("Response", "Invalid status code")
                          ELSE ResponseOf(status_parts,
                                          FromStrRadix(status_parts[2], 10, 65535),
                                          ParseHeaderLines(Tail(lines), EmptyMap),
                                          From(raw_response, header_end + 4),
                                          decoded)

\* Response::get_header
get_header(response, key) ==
    IF to_lowercase(key) \in DOMAIN response.headers
    THEN Some(response.headers[to_lowercase(key)]) ELSE None

\* Response::is_success
is_success(response) ==
    response.status_code >= 200 /\ response.status_code < 300

\* Response::is_redirect
is_redirect(response) ==
    response.status_code >= 300 /\ response.status_code < 400

\* Response::is_client_error
is_client_error(response) ==
    response.status_code >= 400 /\ response.status_code < 500

\* A is_server_error that takes every code from 400 up to 599
is_server_error_From400(response) ==
    response.status_code >= 400 /\ response.status_code < 600

\* Response::is_server_error
is_server_error(response) ==
    response.status_code >= 500 /\ response.status_code < 600

-----------------------------------------------------------------------------
(* Chunk framing, as the parser's tests write it (src/chunked.rs tests)    *)

\* Bounds of SpecChunked
MaxBody == 3

PayloadBytes == {CR, LF, "0"}

RECURSIVE SeqsOfLen(_, _)
SeqsOfLen(S, n) ==
    IF n = 0 THEN {<<>>}
    ELSE {<<x>> \o t : x \in S, t \in SeqsOfLen(S, n - 1)}

\* "Hello World" (0xb bytes) and a payload of 0x1a bytes
LongChunks ==
    { <<"H", "e", "l", "l", "o", SP, "W", "o", "r", "l", "d">>,
      [i \in 1..26 |-> IF i % 2 = 0 THEN LF ELSE CR] }

ChunkExts == { <<>>, <<";", "e", "x", "t", "=", "v", "a", "l">> }

HexChar(d, upper) ==
    IF d < 10 THEN Digits[d + 1]
    ELSE IF upper THEN UpperHex[d - 9] ELSE LowerHex[d - 9]

RECURSIVE ToHex(_, _)
ToHex(n, upper) ==
    IF n < 16 THEN <<HexChar(n, upper)>>
    ELSE ToHex(n \div 16, upper) \o <<HexChar(n % 16, upper)>>

\* One chunk on the wire: size line (with its extension), payload, CR LF
FrameChunk(data, ext, upper) == ToHex(Len(data), upper) \o ext \o CRLF \o data \o CRLF

\* The zero-size chunk and the empty line that ends the stream
FrameEnd(ext) == <<"0">> \o ext \o CRLF \o CRLF

\* The end of a stream: the zero-size chunk, trailer header lines, the empty
\* line, and whatever the peer sent after it
FrameTail(end) ==
    <<"0">> \o end.ext \o CRLF
        \o Flatten([i \in 1..Len(end.trailers) |-> end.trailers[i] \o CRLF])
        \o CRLF \o end.after

TrailerLine == <<"T", ":", "v">>

StreamEnds ==
    { [ext |-> <<>>, trailers |-> <<>>, after |-> <<>>],
      [ext |-> <<";", "e", "x", "t", "=", "v", "a", "l">>, trailers |-> <<>>, after |-> <<>>],
      [ext |-> <<>>, trailers |-> <<TrailerLine>>, after |-> <<>>],
      [ext |-> <<";", "e", "x", "t", "=", "v", "a", "l">>,
       trailers |-> <<TrailerLine, <<"0">> >>, after |-> <<"Z">>],
      [ext |-> <<>>, trailers |-> <<>>, after |-> <<"1", CR, LF, "Z", CR, LF>>] }

\* A size line that is never finished by CR LF (the empty input included)
OpenSizeLines ==
    { <<>>, <<"3">>, <<"3", CR>>, <<"0">>, <<"3", ";", "e">>, <<LF>> }

\* Size lines whose part before ';' is not a hexadecimal integer
BadSizeLines ==
    { <<>>, <<SP>>, <<"g">>, <<"-", "1">>, <<"0", "x", "1">>, <<"1", SP, "1">>,
      <<";", "1">>, <<"1", ".", "0">>, <<"i", "n", "v", "a", "l", "i", "d">> }

\* What may stand where the CR LF after a chunk's payload belongs
BadChunkEnds ==
    { <<"X", "Y">>, <<LF, CR>>, <<CR, "X">>, <<"X", LF>>, <<"0", "0">> }

\* Payloads that arrive behind a size line declaring more than they hold
ShortPayloads ==
    { <<>>, <<"a">>, <<"H", "e", "l", "l", "o">>, <<"0", CR, LF>>, <<CR, LF>> }

\* The sizes a size line may declare for a payload of n bytes so that fewer
\* than size + 2 bytes follow it
DeclaredSizes(n) ==
    { m \in {n - 1, n, n + 1, UsizeMax - 2, UsizeMax - 1, UsizeMax} : m > 0 /\ n < m + 2 }

BodyOf(cs) == Flatten([i \in 1..Len(cs) |-> cs[i].data])

ShortLen(cs) == Len(Flatten([i \in 1..Len(cs) |->
                    IF cs[i].data \in LongChunks THEN <<>> ELSE cs[i].data]))

-----------------------------------------------------------------------------
(* SpecChunked: frame a body chunk by chunk, then parse the stream          *)

ChunkedIdle ==
    /\ chunks = <<>>
    /\ cinput = <<>>
    /\ cres = Ok(<<>>)
    /\ cbuild = TRUE
    /\ cend = [fault |-> "none", tail |-> <<>>]
    /\ cpc = "idle"

InitChunked ==
    /\ chunks = <<>>
    /\ cinput = <<>>
    /\ cres = Ok(<<>>)
    /\ cbuild \in BOOLEAN
    /\ cend = [fault |-> "none", tail |-> <<>>]
    /\ cpc = "build"

AddChunk ==
    /\ cpc = "build"
    /\ \E n \in 1..(MaxBody - ShortLen(chunks)) :
         \E data \in SeqsOfLen(PayloadBytes, n), ext \in ChunkExts :
            /\ chunks' = Append(chunks, [data |-> data, ext |-> ext])
            /\ cinput' = cinput \o FrameChunk(data, ext, FALSE)
    /\ UNCHANGED <<cres, cbuild, cend, cpc>>
    /\ ChunkedOnly

AddLongChunk ==
    /\ cpc = "build"
    /\ chunks = <<>>
    /\ \E data \in LongChunks, ext \in ChunkExts, upper \in BOOLEAN :
            /\ chunks' = Append(chunks, [data |-> data, ext |-> ext])
            /\ cinput' = cinput \o FrameChunk(data, ext, upper)
    /\ UNCHANGED <<cres, cbuild, cend, cpc>>
    /\ ChunkedOnly

EndChunks ==
    /\ cpc = "build"
    /\ \E end \in StreamEnds :
         /\ Len(chunks) > 1 => (end.trailers = <<>> /\ end.after = <<>>)
         /\ cinput' = cinput \o FrameTail(end)
         /\ cend' = [fault |-> "none", tail |-> FrameTail(end)]
    /\ cpc' = "framed"
    /\ UNCHANGED <<chunks, cres, cbuild>>
    /\ ChunkedOnly

\* The stream departs from the framing after the chunks written so far
Damage(fault, tail) ==
    /\ cpc = "build"
    /\ Len(chunks) <= 1
    /\ cinput' = cinput \o tail
    /\ cend' = [fault |-> fault, tail |-> tail]
    /\ cpc' = "damaged"
    /\ UNCHANGED <<chunks, cres, cbuild>>
    /\ ChunkedOnly

\* The stream stops inside a size line
CutSizeLine == \E line \in OpenSizeLines : Damage("no_crlf", line)

\* A size line that is no hexadecimal integer, then a well-formed end
BadSizeLine ==
    \E line \in BadSizeLines, ext \in ChunkExts :
        Damage("bad_size", line \o ext \o CRLF \o <<"a">> \o CRLF \o FrameEnd(<<>>))

\* A size line declaring size bytes, and fewer than size + 2 bytes after it
CutChunk ==
    \E data \in ShortPayloads, ext \in ChunkExts :
        \E size \in DeclaredSizes(Len(data)) :
            Damage("short", ToHex(size, FALSE) \o ext \o CRLF \o data)

\* A chunk whose payload is not followed by CR LF, then a well-formed end
BreakChunkEnd ==
    \E n \in 1..2 :
        \E data \in SeqsOfLen(PayloadBytes, n), end \in BadChunkEnds :
            Damage("bad_end", ToHex(n, FALSE) \o CRLF \o data \o end \o FrameEnd(<<>>))

\* The stream stops after the zero-size chunk's size line and before the
\* empty line that ends the trailer
CutTrailer ==
    \E end \in StreamEnds :
        \E keep \in (Len(end.ext) + 3)..(Len(FrameTail(end)) - Len(end.after) - 1) :
            Damage("trailer_cut", UpTo(FrameTail(end), keep))

ParseChunked ==
    /\ cpc \in {"framed", "damaged"}
    /\ cres' = ChunkedParser_parse(cinput, cbuild)
    /\ cpc' = IF cpc = "framed" THEN "parsed" ELSE "answered"
    /\ UNCHANGED <<chunks, cinput, cbuild, cend>>
    /\ ChunkedOnly

NextChunked ==
    \/ AddChunk \/ AddLongChunk \/ EndChunks
    \/ CutSizeLine \/ BadSizeLine \/ CutChunk \/ BreakChunkEnd \/ CutTrailer
    \/ ParseChunked

-----------------------------------------------------------------------------
(* SpecUrl: URL strings written from their parts, then resolved             *)

S_example_com == <<"e", "x", "a", "m", "p", "l", "e", ".", "c", "o", "m">>

UrlParts ==
    [scheme : {S_http, S_https, <<"f", "t", "p">>},
     host : {S_example_com, <<>>},
     port : {None, Some(8080), Some(80), Some(443), Some(70000)},
     path : {<<>>, <<"/">>, <<"/", "p", "a", "t", "h">>},
     query : {None, Some(<<"q", "=", "v">>)}]

\* The URL string of the parts: scheme://host[:port]path[?query]
WriteUrl(c) ==
    c.scheme \o <<":", "/", "/">> \o c.host
    \o (IF c.port = None THEN <<>> ELSE <<":">> \o ToDec(Unwrap(c.port)))
    \o c.path
    \o (IF c.query = None THEN <<>> ELSE <<"?">> \o Unwrap(c.query))

\* URL strings that are not of that form, each with what is wrong with it
OddUrls ==
    { [kind |-> "no_host", url |-> <<"m", "a", "i", "l", "t", "o", ":", "u", "s", "e", "r", "@", "e", "x", "a", "m", "p", "l", "e", ".", "c", "o", "m">>],
      [kind |-> "no_host", url |-> <<"f", "i", "l", "e", ":", "/", "/", "/", "e", "t", "c", "/", "h", "o", "s", "t", "s">>],
      [kind |-> "unparsable", url |-> <<"e", "x", "a", "m", "p", "l", "e", ".", "c", "o", "m", "/", "p", "a", "t", "h">>],
      [kind |-> "unparsable", url |-> <<>>] }

\* What the parts say about the URL: "ok" for an http(s) URL with a host and
\* a port of 16 bits
KindOf(c) ==
    IF c.host = <<>> THEN "no_host"
    ELSE IF c.port # None /\ Unwrap(c.port) > 65535 THEN "unparsable"
    ELSE IF c.scheme \notin {S_http, S_https} THEN "other_scheme"
    ELSE "ok"

UrlIdle ==
    /\ ucomp = [kind |-> "none"]
    /\ uinput = <<>>
    /\ ures = Ok(<<>>)
    /\ upc = "idle"

InitUrl ==
    /\ \/ \E c \in UrlParts :
            /\ ucomp = [kind |-> KindOf(c), parts |-> c]
            /\ uinput = WriteUrl(c)
       \/ \E o \in OddUrls :
            /\ ucomp = [kind |-> o.kind]
            /\ uinput = o.url
    /\ ures = Ok(<<>>)
    /\ upc = "input"

ResolveUrl ==
    /\ upc = "input"
    /\ ures' = parse_host_port(uinput)
    /\ upc' = "resolved"
    /\ UNCHANGED <<ucomp, uinput>>
    /\ UrlOnly

NextUrl == ResolveUrl

-----------------------------------------------------------------------------
(* SpecRequest: a request is built by header() and body() calls in any      *)
(* order, then serialized                                                   *)

\* Bound of SpecRequest: the number of header() and body() calls
MaxCalls == 3

Methods == {<<"G", "E", "T">>, <<"P", "O", "S", "T">>}

RequestUrls == {<<"h", "t", "t", "p", ":", "/", "/", "e", "x", "a", "m", "p", "l", "e", ".", "c", "o", "m">>, <<"h", "t", "t", "p", "s", ":", "/", "/", "e", "x", "a", "m", "p", "l", "e", ".", "c", "o", "m", "/", "p", "a", "t", "h", "?", "q", "=", "v">>}

S_keep_alive == <<"k", "e", "e", "p", "-", "a", "l", "i", "v", "e">>

\* The header() calls of the caller
HeaderCalls ==
    { <<S_Connection, S_keep_alive>>,
      <<S_Content_Length, <<"7">>>>,
      <<<<"X", "-", "A">>, <<"1">>>>,
      <<<<"X", "-", "A">>, <<"2">>>>,
      <<<<"x", "-", "a">>, <<"3">>>> }

\* The clients a request is sent with: HttpClient::new(), and a client built
\* with no browser headers and one default header, which HeaderMap::insert
\* has stored
Clients ==
    { [proxy_config |-> None, default_headers |-> HeaderMap_new],
      [proxy_config |-> None,
       default_headers |-> HeaderMap_insert(HeaderMap_new, <<"X", "-", "A">>, <<"d">>).inner] }

\* The merge of send_request: a default header is inserted when the map of
\* the request does not hold its key
merge_default_headers(c, req) ==
    [req EXCEPT !.headers =
        [k \in DOMAIN req.headers \cup DOMAIN c.default_headers |->
            IF k \in DOMAIN req.headers THEN req.headers[k] ELSE c.default_headers[k]]]

\* The body() calls of the caller: empty, text, and bytes that are not UTF-8
Bodies == { <<>>, <<"a", "b">>, <<"a", "xFF">> }

RequestIdle ==
    /\ rq = [method |-> <<>>, url |-> <<>>, headers |-> EmptyMap, body |-> None]
    /\ rcaller = [n |-> 0, headers |-> EmptyMap, last |-> EmptyMap]
    /\ rclient = None
    /\ rser = Ok(<<>>)
    /\ rpc = "idle"

InitRequest ==
    /\ \E m \in Methods, u \in RequestUrls : rq = Request_new(m, u)
    /\ rcaller = [n |-> 0, headers |-> EmptyMap, last |-> EmptyMap]
    /\ rclient = None
    /\ rser = Ok(<<>>)
    /\ rpc = "building"

CallHeader ==
    /\ rpc = "building"
    /\ rcaller.n < MaxCalls
    /\ \E h \in HeaderCalls :
         /\ rq' = Request_header(rq, h[1], h[2])
         /\ rcaller' = [n |-> rcaller.n + 1,
                        headers |-> Insert(rcaller.headers, h[1], h[2]),
                        last |-> Insert(rcaller.last, to_lowercase(h[1]), h[2])]
    /\ UNCHANGED <<rclient, rser, rpc>>
    /\ RequestOnly

CallBody ==
    /\ rpc = "building"
    /\ rcaller.n < MaxCalls
    /\ \E b \in Bodies : rq' = Request_body(rq, b)
    /\ rcaller' = [rcaller EXCEPT !.n = @ + 1]
    /\ UNCHANGED <<rclient, rser, rpc>>
    /\ RequestOnly

\* HttpClient::send_request, lines 84-90: the default headers of the client
\* are merged into the request
MergeDefaults ==
    /\ rpc = "building"
    /\ \E c \in Clients :
         /\ rq' = merge_default_headers(c, rq)
         /\ rclient' = Some(c)
    /\ rpc' = "merged"
    /\ UNCHANGED <<rcaller, rser>>
    /\ RequestOnly

\* request.serialize_to_string(&parsed_url), called on a request as it was
\* built or by send_request after the merge
Serialize ==
    /\ rpc \in {"building", "merged"}
    /\ \E parsed_url \in {parse_host_port(rq.url)} :
         \E order \in Orders(DOMAIN rq.headers) :
            rser' = IF parsed_url.ok
                    THEN Ok(serialize_to_string(rq, parsed_url.val, order))
                    ELSE parsed_url
    /\ rpc' = "serialized"
    /\ UNCHANGED <<rq, rcaller, rclient>>
    /\ RequestOnly

NextRequest == CallHeader \/ CallBody \/ MergeDefaults \/ Serialize

-----------------------------------------------------------------------------
(* SpecResponse: raw responses written from their parts, then parsed        *)

\* Bound of SpecResponse: the number of header lines of a response
MaxHeaderLines == 2

\* Status-code tokens, each with the number it denotes (-1: none of 16 bits)
StatusTokens ==
    { [token |-> <<"2", "0", "0">>, code |-> 200],
      [token |-> <<"4", "0", "4">>, code |-> 404],
      [token |-> <<"0">>, code |-> 0],
      [token |-> <<"1", "9", "9">>, code |-> 199],
      [token |-> <<"2", "9", "9">>, code |-> 299],
      [token |-> <<"3", "0", "0">>, code |-> 300],
      [token |-> <<"3", "9", "9">>, code |-> 399],
      [token |-> <<"4", "9", "9">>, code |-> 499],
      [token |-> <<"5", "0", "0">>, code |-> 500],
      [token |-> <<"5", "9", "9">>, code |-> 599],
      [token |-> <<"6", "0", "0">>, code |-> 600],
      [token |-> <<"6", "5", "5", "3", "5">>, code |-> 65535],
      [token |-> <<"a", "b", "c">>, code |-> -1],
      [token |-> <<"9", "9", "9", "9", "9">>, code |-> -1] }

\* What follows the status code: the tokens and the blanks between them
Reasons ==
    { [tokens |-> <<>>, sep |-> <<SP>>],
      [tokens |-> << <<"O", "K">> >>, sep |-> <<SP>>],
      [tokens |-> << <<"N", "o", "t">>, <<"F", "o", "u", "n", "d">> >>, sep |-> <<SP>>],
      [tokens |-> << <<"N", "o", "t">>, <<"F", "o", "u", "n", "d">> >>, sep |-> <<SP, HT>>] }

S_content_type == <<"c", "o", "n", "t", "e", "n", "t", "-", "t", "y", "p", "e">>

\* Header lines as they arrive, each with the entry it stands for (key None:
\* the line has no ':')
HeaderItems ==
    { [line |-> <<"C", "o", "n", "t", "e", "n", "t", "-", "T", "y", "p", "e", ":", SP, "t", "e", "x", "t", "/", "p", "l", "a", "i", "n">>,
       key |-> Some(S_content_type),
       value |-> <<"t", "e", "x", "t", "/", "p", "l", "a", "i", "n">>],
      [line |-> <<"c", "o", "n", "t", "e", "n", "t", "-", "t", "y", "p", "e", ":", "t", "e", "x", "t", "/", "h", "t", "m", "l">>,
       key |-> Some(S_content_type),
       value |-> <<"t", "e", "x", "t", "/", "h", "t", "m", "l">>],
      [line |-> <<SP, "X", "-", "A", SP, ":", HT, "a", ":", SP, "b", SP>>,
       key |-> Some(<<"x", "-", "a">>),
       value |-> <<"a", ":", SP, "b">>],
      [line |-> <<"N", "o", "C", "o", "l", "o", "n">>,
       key |-> None,
       value |-> <<>>],
      [line |-> <<"C", "o", "n", "t", "e", "n", "t", "-", "E", "n", "c", "o", "d", "i", "n", "g", ":", SP, "i", "d", "e", "n", "t", "i", "t", "y">>,
       key |-> Some(S_content_encoding),
       value |-> <<"i", "d", "e", "n", "t", "i", "t", "y">>],
      [line |-> <<"C", "o", "n", "t", "e", "n", "t", "-", "E", "n", "c", "o", "d", "i", "n", "g", ":", SP, "G", "Z", "I", "P">>,
       key |-> Some(S_content_encoding),
       value |-> <<"G", "Z", "I", "P">>] }

\* Bodies: empty, one holding CR LF CR LF, and one that is not UTF-8
ResponseBodies == { <<>>, <<"H", "i", CR, LF, CR, LF, "!">>, <<"a", "xFF">> }

ResponseParts ==
    [status : StatusTokens,
     reason : Reasons,
     headers : UNION {SeqsOfLen(HeaderItems, n) : n \in 0..MaxHeaderLines},
     body : ResponseBodies]

\* The raw response of the parts
WriteResponse(c) ==
    Join(<<S_HTTP_1_1, c.status.token>> \o c.reason.tokens, c.reason.sep) \o CRLF
    \o Flatten([i \in 1..Len(c.headers) |-> c.headers[i].line \o CRLF])
    \o CRLF
    \o c.body

\* Raw bytes that are no response: nothing, no blank line, no status line
OddResponses ==
    { <<>>,
      <<"H", "T", "T", "P", "/", "1", ".", "1", SP, "2", "0", "0", SP, "O", "K", CR, LF>>,
      <<CR, LF, CR, LF, "x">> }

\* What the decoder of a compression may return
DecoderOutcomes == { Ok(<<"H", "i">>), Err("io", "corrupt stream") }

ResponseIdle ==
    /\ pparts = [kind |-> "none"]
    /\ praw = <<>>
    /\ pres = Ok(<<>>)
    /\ ppc = "idle"

InitResponse ==
    /\ \/ \E c \in ResponseParts :
            /\ pparts = [kind |-> "parts", parts |-> c]
            /\ praw = WriteResponse(c)
       \/ \E o \in OddResponses :
            /\ pparts = [kind |-> "odd"]
            /\ praw = o
    /\ pres = Ok(<<>>)
    /\ ppc = "input"

ParseResponse ==
    /\ ppc = "input"
    /\ \E decoded \in DecoderOutcomes : pres' = from_raw_bytes(praw, decoded)
    /\ ppc' = "parsed"
    /\ UNCHANGED <<pparts, praw>>
    /\ ResponseOnly

NextResponse == ParseResponse

-----------------------------------------------------------------------------
(* SpecCall: HttpClient::send_request (src/client/model.rs), the connection *)
(* (src/connection/connection.rs) and the proxy tunnel                      *)
(* (src/connection/proxy.rs).  The client is one made by HttpClient::new or *)
(* HttpClient::with_proxy: it has no default headers to merge.              *)

\* The size of the read buffers
BufferSize == 8192

\* Bound of SpecCall: the bytes a read returns when the peer's bytes arrive
\* in pieces
MaxSegment == 24

\* Bound of SpecCall: the bytes of its answer a server that closes early
\* leaves unsent
MaxCut == 2

S_CONNECT == <<"C", "O", "N", "N", "E", "C", "T">>

\* The CONNECT request of establish_tunnel
ConnectRequest(target_host, target_port) ==
    S_CONNECT \o <<SP>> \o target_host \o <<":">> \o ToDec(target_port)
    \o <<SP>> \o S_HTTP_1_1 \o CRLF
    \o HeaderLine(S_Host, target_host \o <<":">> \o ToDec(target_port))
    \o HeaderLine(S_Connection, S_keep_alive)
    \o CRLF

\* An establish_tunnel that takes every status code as success
establish_tunnel_status_Any(proxy_response) ==
    LET status_line == IF Lines(proxy_response) = <<>> THEN <<>>
                       ELSE Head(Lines(proxy_response))
        parts == split_whitespace(status_line)
    IN  IF Len(parts) < 2 THEN Err("Proxy", "Invalid proxy response")
        ELSE IF FromStrRadix(parts[2], 10, 65535) = -1
             THEN Err("Proxy", "Invalid status code in proxy response")
        ELSE Ok(<<>>)

\* establish_tunnel after its read loop: the status of the proxy's answer
establish_tunnel_status(proxy_response) ==
    LET status_line == IF Lines(proxy_response) = <<>> THEN <<>>
                       ELSE Head(Lines(proxy_response))
        parts == split_whitespace(status_line)
    IN  IF Len(parts) < 2 THEN Err("Proxy", "Invalid proxy response")
        ELSE IF FromStrRadix(parts[2], 10, 65535) = -1
             THEN Err("Proxy", "Invalid status code in proxy response")
        ELSE IF FromStrRadix(parts[2], 10, 65535) # 200
             THEN ErrFmt("Proxy", "Proxy connection failed: {}",
                         ToDec(FromStrRadix(parts[2], 10, 65535)))
        ELSE Ok(<<>>)

\* The numbers of bytes a read may return when data holds what the peer has
\* yet to send: all of it, or one segment of it, never more than the buffer
ReadSizes(data) == {Min(Len(data), BufferSize), Min(Len(data), MaxSegment)}

\* What a proxy may answer to CONNECT before it closes the stream
ProxyReplies ==
    { <<"H", "T", "T", "P", "/", "1", ".", "1", SP, "2", "0", "0", SP, "C", "o", "n", "n", "e", "c", "t", "i", "o", "n", SP, "e", "s", "t", "a", "b", "l", "i", "s", "h", "e", "d", CR, LF, CR, LF>>,
      <<"H", "T", "T", "P", "/", "1", ".", "1", SP, "4", "0", "7", SP, "P", "r", "o", "x", "y", SP, "A", "u", "t", "h", "e", "n", "t", "i", "c", "a", "t", "i", "o", "n", SP, "R", "e", "q", "u", "i", "r", "e", "d", CR, LF, CR, LF>>,
      <<"H", "T", "T", "P", "/", "1", ".", "0", SP, "2", "0", "0">>,
      <<"H", "T", "T", "P", "/", "1", ".", "1", CR, LF, CR, LF>>,
      <<"H", "T", "T", "P", "/", "1", ".", "1", SP, "a", "b", "c", SP, "O", "K", CR, LF, CR, LF>>,
      <<"H", "T", "T", "P", "/", "1", ".", "1", SP, "2", "0", "0", SP, "O", "K", CR, LF, CR, LF, "T", "L", "S">>,
      <<>> }

S_Hello == <<"H", "e", "l", "l", "o">>

\* What a server may answer: the body, and how it is framed on the wire
ServerAnswers ==
    { [framing |-> "chunked", payload |-> BodyOf(cs),
       header |-> HeaderLine(te[1], te[2]),
       wire |-> Flatten([i \in 1..Len(cs) |-> FrameChunk(cs[i].data, <<>>, FALSE)])
                \o FrameEnd(<<>>)] :
        cs \in { <<[data |-> S_Hello]>>,
                 <<[data |-> <<"H", "e", "l">>], [data |-> <<"l", "o">>]>>,
                 <<>> },
        te \in { <<<<"T", "r", "a", "n", "s", "f", "e", "r", "-", "E", "n", "c", "o", "d", "i", "n", "g">>, S_chunked>>,
                 <<S_transfer_encoding, <<"g", "z", "i", "p", ",", SP, "C", "h", "u", "n", "k", "e", "d">>>> } }
    \cup
    { [framing |-> "length", payload |-> b,
       header |-> HeaderLine(S_Content_Length, ToDec(Len(b))),
       wire |-> b] : b \in { S_Hello, <<>>, <<"a", "xFF">> } }
    \cup
    { [framing |-> "close", payload |-> <<"H", "i">>, header |-> <<>>,
       wire |-> <<"H", "i">>] }
    \cup
    { [framing |-> "encoded", payload |-> <<"H", "i">>,
       header |-> HeaderLine(S_content_encoding, S_deflate),
       wire |-> <<"x", "y">>] }

\* The bytes of an answer on the wire
AnswerBytes(a) ==
    S_HTTP_1_1 \o <<SP, "2", "0", "0", SP, "O", "K">> \o CRLF \o a.header \o CRLF \o a.wire

\* The URLs of a call: those of RequestUrls, one whose host is no server
\* name, one that is no URL and one without a host
CallUrls ==
    RequestUrls
    \cup { <<"h", "t", "t", "p", "s", ":", "/", "/", "e", "x", "!", "a", ".", "c", "o", "m">>,
           <<"e", "x", "a", "m", "p", "l", "e", ".", "c", "o", "m", "/", "p", "a", "t", "h">>,
           <<"m", "a", "i", "l", "t", "o", ":", "u", "s", "e", "r", "@", "e", "x", "a", "m", "p", "l", "e", ".", "c", "o", "m">> }

CallIdle ==
    /\ call = [url |-> <<>>, proxy |-> FALSE]
    /\ pc = "idle"
    /\ target = None
    /\ sockets = 0
    /\ socket = <<>>
    /\ proxy_in = <<>>
    /\ tunnel = [response |-> <<>>, total_read |-> 0, state |-> "none"]
    /\ request_str = <<>>
    /\ server_in = <<>>
    /\ received = <<>>
    /\ scenario = [framing |-> "none"]
    /\ outcome = Ok(<<>>)

InitCall ==
    /\ \E u \in CallUrls, p \in BOOLEAN : call = [url |-> u, proxy |-> p]
    /\ pc = "resolve"
    /\ target = None
    /\ sockets = 0
    /\ socket = <<>>
    /\ proxy_in = <<>>
    /\ tunnel = [response |-> <<>>, total_read |-> 0, state |-> "none"]
    /\ request_str = <<>>
    /\ server_in = <<>>
    /\ received = <<>>
    /\ scenario = [framing |-> "none"]
    /\ outcome = Ok(<<>>)

\* send_request up to create_connection: parse_host_port(&request.url)?
Resolve ==
    /\ pc = "resolve"
    /\ \E parsed_url \in {parse_host_port(call.url)} :
         IF parsed_url.ok
         THEN /\ target' = Some(parsed_url.val)
              /\ pc' = "connect"
              /\ UNCHANGED outcome
         ELSE /\ outcome' = parsed_url
              /\ pc' = "done"
              /\ UNCHANGED target
    /\ UNCHANGED <<call, sockets, socket, proxy_in, tunnel, request_str,
                   server_in, received, scenario>>
    /\ CallOnly

\* create_connection: TcpStream::connect of AsyncHttpConnection::direct or of
\* AsyncProxyConnection::new, which succeeds or fails
Connect ==
    /\ pc = "connect"
    /\ \/ /\ sockets' = sockets + 1
          /\ pc' = IF call.proxy THEN "tunnel_write" ELSE "serialize"
          /\ UNCHANGED outcome
       \/ /\ outcome' = IF call.proxy
                        THEN ErrFmt("Connection", "Failed to connect to proxy {}: {}", <<>>)
                        ELSE ErrFmt("Connection", "Failed to connect to {}: {}", <<>>)
          /\ pc' = "done"
          /\ UNCHANGED sockets
    /\ UNCHANGED <<call, target, socket, proxy_in, tunnel, request_str,
                   server_in, received, scenario>>
    /\ CallOnly

\* establish_tunnel: the CONNECT request is written and flushed; the proxy
\* then answers
TunnelWrite ==
    /\ pc = "tunnel_write"
    /\ \/ /\ socket' = Append(socket,
                          [what |-> "connect",
                           bytes |-> ConnectRequest(Unwrap(target).hostname, Unwrap(target).port)])
          /\ \E reply \in ProxyReplies : proxy_in' = reply
          /\ tunnel' = [tunnel EXCEPT !.state = "reading"]
          /\ pc' = "tunnel_read"
          /\ UNCHANGED outcome
       \/ /\ outcome' = ErrFmt("Proxy", "Failed to write CONNECT request: {}", <<>>)
          /\ tunnel' = [tunnel EXCEPT !.state = "failed"]
          /\ pc' = "done"
          /\ UNCHANGED <<socket, proxy_in>>
    /\ UNCHANGED <<call, target, sockets, request_str, server_in, received, scenario>>
    /\ CallOnly

\* The end of establish_tunnel once its read loop is left, and of via_proxy
TunnelEnd(proxy_response, total_read) ==
    \E status \in {establish_tunnel_status(proxy_response)} :
        /\ tunnel' = [response |-> proxy_response, total_read |-> total_read,
                      state |-> IF status.ok THEN "established" ELSE "refused"]
        /\ IF status.ok
           THEN pc' = "serialize" /\ UNCHANGED outcome
           ELSE pc' = "done" /\ outcome' = status

\* establish_tunnel: one read of the loop, and what follows when the loop is
\* left
TunnelRead ==
    /\ pc = "tunnel_read"
    /\ \/ /\ proxy_in = <<>>
          /\ TunnelEnd(tunnel.response, tunnel.total_read)
          /\ UNCHANGED proxy_in
       \/ /\ proxy_in # <<>>
          /\ \E n \in ReadSizes(proxy_in) :
               /\ proxy_in' = From(proxy_in, n)
               /\ \E got \in {tunnel.response \o from_utf8_lossy(UpTo(proxy_in, n))} :
                    IF Contains(got, CRLFCRLF)
                    THEN TunnelEnd(got, tunnel.total_read + n)
                    ELSE IF tunnel.total_read + n > BufferSize
                    THEN /\ tunnel' = [response |-> got, total_read |-> tunnel.total_read + n,
                                       state |-> "failed"]
                         /\ outcome' = Err("Proxy", "Proxy response too large")
                         /\ pc' = "done"
                    ELSE /\ tunnel' = [response |-> got, total_read |-> tunnel.total_read + n,
                                       state |-> "reading"]
                         /\ UNCHANGED <<pc, outcome>>
       \/ /\ outcome' = ErrFmt("Proxy", "Failed to read proxy response: {}", <<>>)
          /\ tunnel' = [tunnel EXCEPT !.state = "failed"]
          /\ pc' = "done"
          /\ UNCHANGED proxy_in
    /\ UNCHANGED <<call, target, sockets, socket, request_str, server_in, received, scenario>>
    /\ CallOnly

\* send_request: request.serialize_to_string(&parsed_url)?, the request being
\* Request::new(GET, url)
SerializeRequest ==
    /\ pc = "serialize"
    /\ \E request \in {Request_new(<<"G", "E", "T">>, call.url)} :
         \E order \in Orders(DOMAIN request.headers) :
            request_str' = serialize_to_string(request, Unwrap(target), order)
    /\ pc' = IF Unwrap(target).is_https THEN "handshake" ELSE "write"
    /\ UNCHANGED <<call, target, sockets, socket, proxy_in, tunnel,
                   server_in, received, scenario, outcome>>
    /\ CallOnly

\* ServerName::try_from(server_name): a DNS name is made of letters, digits,
\* '-', '_' and '.'
IsServerName(server_name) ==
    /\ server_name # <<>>
    /\ \A i \in 1..Len(server_name) :
         \/ IsAlpha(server_name[i])
         \/ IsDigit(server_name[i])
         \/ server_name[i] \in {"-", "_", "."}

\* create_tls_stream: the server name is checked, then the client session
\* is created, which succeeds or fails (session)
create_tls_stream(server_name, session) ==
    IF ~IsServerName(server_name) THEN Err("Other", "Invalid DNS name")
    ELSE IF ~session THEN Err("Other", "Failed to create client connection")
    ELSE Ok(<<>>)

\* send_https_request: create_tls_stream wraps the stream for the hostname;
\* the handshake is then written to the socket and succeeds or fails
TlsHandshake ==
    /\ pc = "handshake"
    /\ \E session \in BOOLEAN :
         \E tls_stream \in {create_tls_stream(Unwrap(target).hostname, session)} :
            IF ~tls_stream.ok
            THEN /\ outcome' = tls_stream
                 /\ pc' = "done"
                 /\ UNCHANGED socket
            ELSE /\ socket' = Append(socket, [what |-> "tls_handshake", bytes |-> <<>>])
                 /\ \/ pc' = "write" /\ UNCHANGED outcome
                    \/ pc' = "done" /\ outcome' = Err("Tls", "handshake failed")
    /\ UNCHANGED <<call, target, sockets, proxy_in, tunnel, request_str,
                   server_in, received, scenario>>
    /\ CallOnly

\* send_http_request and send_https_request: the request is written and
\* flushed; the server then answers, and may close before the end of its
\* answer, or send that much and then neither send nor close (stall)
WriteRequest ==
    /\ pc = "write"
    /\ \/ /\ socket' = Append(socket,
                          [what |-> IF Unwrap(target).is_https THEN "tls_data" ELSE "http",
                           bytes |-> request_str])
          /\ \E a \in ServerAnswers : \E cut \in 0..Min(MaxCut, Len(a.wire)) :
               /\ \E ends \in {"close", "stall"} :
                    scenario' = [framing |-> a.framing, payload |-> a.payload,
                                 cut |-> cut, ends |-> ends]
               /\ server_in' = UpTo(AnswerBytes(a), Len(AnswerBytes(a)) - cut)
          /\ pc' = "read"
          /\ UNCHANGED outcome
       \/ /\ outcome' = ErrFmt("Other", "Failed to write request: {}", <<>>)
          /\ pc' = "done"
          /\ UNCHANGED <<socket, scenario, server_in>>
    /\ UNCHANGED <<call, target, sockets, proxy_in, tunnel, request_str, received>>
    /\ CallOnly

\* send_http_request and send_https_request: one read of the loop; at the
\* end of the stream String::from_utf8, then Response::from_raw_bytes in
\* send_request.  No deadline is set on the stream: when the peer neither
\* sends nor closes, the read stays pending and no step is taken
ReadResponse ==
    /\ pc = "read"
    /\ \/ /\ server_in = <<>>
          /\ scenario.ends = "close"
          /\ \E decoded \in DecoderOutcomes :
               outcome' = IF is_utf8(received) THEN from_raw_bytes(received, decoded)
                          ELSE ErrFmt("Other", "Invalid UTF-8: {}", <<>>)
          /\ pc' = "done"
          /\ UNCHANGED <<server_in, received>>
       \/ /\ server_in # <<>>
          /\ \E n \in ReadSizes(server_in) :
               /\ received' = received \o UpTo(server_in, n)
               /\ server_in' = From(server_in, n)
          /\ UNCHANGED <<pc, outcome>>
       \/ /\ server_in # <<>> \/ scenario.ends = "close"
          /\ outcome' = ErrFmt("Other", "Failed to read response: {}", <<>>)
          /\ pc' = "done"
          /\ UNCHANGED <<server_in, received>>
    /\ UNCHANGED <<call, target, sockets, socket, proxy_in, tunnel, request_str, scenario>>
    /\ CallOnly

NextCall ==
    \/ Resolve
    \/ Connect
    \/ TunnelWrite
    \/ TunnelRead
    \/ SerializeRequest
    \/ TlsHandshake
    \/ WriteRequest
    \/ ReadResponse

-----------------------------------------------------------------------------
(* Concurrent calls (src/client/model.rs, src/connection/connection.rs)    *)
(* Each call is a future of HttpClient::send_request; its locals are its   *)
(* own, the client is shared by reference.  The bytes of CONNECT and of    *)
(* the request are those of SpecCall; here a write is named by the call    *)
(* that makes it.                                                          *)

\* Bound of SpecClient: the calls in flight at once
MaxConcurrent == 2

CallIds == 1..MaxConcurrent

\* The URLs of concurrent calls: one that resolves and one that is no URL
ClientUrls ==
    { <<"h", "t", "t", "p", ":", "/", "/", "e", "x", "a", "m", "p", "l", "e", ".", "c", "o", "m">>,
      <<"e", "x", "a", "m", "p", "l", "e", ".", "c", "o", "m", "/", "p", "a", "t", "h">> }

\* What the server at the far end of the k-th stream answers, its body
\* naming the stream
AnswerOn(k) ==
    S_HTTP_1_1 \o <<SP, "2", "0", "0", SP, "O", "K">> \o CRLF \o CRLF \o ToDec(k)

\* A connection of a call that is the first stream opened, whoever opened it
connection_of_First(c) ==
    IF calls[c].connection = 0 THEN 0 ELSE 1

\* The stream that the connection of call c owns, 0 when it has none
connection_of(c) ==
    calls[c].connection

\* A drop that leaves the stream open
Drop_Leak(ss, c) ==
    ss

\* The locals of call c are dropped: the TcpStream its connection owns is
\* closed (ss: the streams before the drop)
Drop(ss, c) ==
    IF connection_of(c) = 0 THEN ss
    ELSE [ss EXCEPT ![connection_of(c)].open = FALSE]

\* The stream of call c after one more operation on it
Logged(c, op) ==
    [streams[connection_of(c)] EXCEPT !.log = Append(@, [by |-> c, op |-> op])]

\* The call ends with the result r: send_request returns and its locals are
\* dropped
Return(c, r, ss) ==
    /\ calls' = [calls EXCEPT ![c].pc = "done", ![c].result = r]
    /\ streams' = Drop(ss, c)

ClientIdle ==
    /\ client = [proxy_config |-> None, default_headers |-> EmptyMap]
    /\ calls = <<>>
    /\ streams = <<>>

InitClient ==
    /\ \E p \in {None, Some("proxy")} :
         client = [proxy_config |-> p, default_headers |-> EmptyMap]
    /\ \E urls \in [CallIds -> ClientUrls] :
         calls = [c \in CallIds |->
                    [url |-> urls[c], pc |-> "start", parsed_url |-> None,
                     connection |-> 0, raw_response |-> <<>>, result |-> Ok(<<>>)]]
    /\ streams = <<>>

\* send_request up to create_connection: parse_host_port(&request.url)?
ResolveUrlOf(c) ==
    /\ calls[c].pc = "start"
    /\ \E parsed_url \in {parse_host_port(calls[c].url)} :
         IF parsed_url.ok
         THEN /\ calls' = [calls EXCEPT ![c].pc = "connect",
                                        ![c].parsed_url = Some(parsed_url.val)]
              /\ UNCHANGED streams
         ELSE Return(c, parsed_url, streams)
    /\ UNCHANGED client
    /\ ClientOnly

\* create_connection: TcpStream::connect of AsyncHttpConnection::direct or
\* of AsyncProxyConnection::new opens a new stream, or fails
OpenConnection(c) ==
    /\ calls[c].pc = "connect"
    /\ \/ /\ streams' = Append(streams, [open |-> TRUE, inbox |-> <<>>, log |-> <<>>])
          /\ calls' = [calls EXCEPT ![c].connection = Len(streams) + 1,
                                    ![c].pc = IF client.proxy_config = None
                                              THEN "send" ELSE "tunnel"]
       \/ Return(c, ErrFmt("Connection", "Failed to connect to {}: {}", <<>>), streams)
    /\ UNCHANGED client
    /\ ClientOnly

\* via_proxy: establish_tunnel writes CONNECT to the stream of the call and
\* reads the answer of the proxy from it; the tunnel is granted or not
EstablishTunnel(c) ==
    /\ calls[c].pc = "tunnel"
    /\ \E ss \in {[streams EXCEPT ![connection_of(c)] = Logged(c, "connect")]} :
         \/ /\ streams' = ss
            /\ calls' = [calls EXCEPT ![c].pc = "send"]
         \/ Return(c, ErrFmt("Proxy", "Proxy connection failed: {}", <<>>), ss)
    /\ UNCHANGED client
    /\ ClientOnly

\* connection.send_request: the request is written to the stream of the call
\* and flushed, and the server at its far end answers; or the write fails
ConnectionWrite(c) ==
    /\ calls[c].pc = "send"
    /\ \/ /\ streams' = [streams EXCEPT ![connection_of(c)] =
                            [Logged(c, "request") EXCEPT
                                !.inbox = AnswerOn(connection_of(c))]]
          /\ calls' = [calls EXCEPT ![c].pc = "read"]
       \/ Return(c, ErrFmt("Other", "Failed to write request: {}", <<>>), streams)
    /\ UNCHANGED client
    /\ ClientOnly

\* connection.send_request: one read of the loop from the stream of the
\* call; at the end of the stream String::from_utf8, then
\* Response::from_raw_bytes in send_request
ConnectionRead(c) ==
    /\ calls[c].pc = "read"
    /\ \E ss \in {[streams EXCEPT ![connection_of(c)] = Logged(c, "read")]} :
         \/ /\ ss[connection_of(c)].inbox = <<>>
            /\ Return(c, IF is_utf8(calls[c].raw_response)
                         THEN from_raw_bytes(calls[c].raw_response, Ok(<<>>))
                         ELSE ErrFmt("Other", "Invalid UTF-8: {}", <<>>), ss)
         \/ /\ ss[connection_of(c)].inbox # <<>>
            /\ \E n \in ReadSizes(ss[connection_of(c)].inbox) :
                 /\ calls' = [calls EXCEPT ![c].raw_response =
                                 @ \o UpTo(ss[connection_of(c)].inbox, n)]
                 /\ streams' = [ss EXCEPT ![connection_of(c)].inbox = From(@, n)]
         \/ Return(c, ErrFmt("Other", "Failed to read response: {}", <<>>), ss)
    /\ UNCHANGED client
    /\ ClientOnly

\* The future of call c is dropped before it has returned: its locals are
\* dropped with it
Cancel(c) ==
    /\ calls[c].pc \notin {"done", "cancelled"}
    /\ calls' = [calls EXCEPT ![c].pc = "cancelled"]
    /\ streams' = Drop(streams, c)
    /\ UNCHANGED client
    /\ ClientOnly

NextClient ==
    \/ \E c \in CallIds : ResolveUrlOf(c)
    \/ \E c \in CallIds : OpenConnection(c)
    \/ \E c \in CallIds : EstablishTunnel(c)
    \/ \E c \in CallIds : ConnectionWrite(c)
    \/ \E c \in CallIds : ConnectionRead(c)
    \/ \E c \in CallIds : Cancel(c)

-----------------------------------------------------------------------------
(* init_crypto_provider (src/tls.rs)                                       *)

\* Bound of SpecInit: the callers of init_crypto_provider
MaxCallers == 3

CallerIds == 1..MaxCallers

OnceIdle ==
    /\ once = "idle"
    /\ provider = None
    /\ installs = <<>>
    /\ callers = <<>>

\* No caller has called yet: TLS_INIT is new; a default provider may be
\* installed already
InitOnce ==
    /\ once = "incomplete"
    /\ provider \in {None, Some("foreign")}
    /\ installs = <<>>
    /\ callers = [c \in CallerIds |-> [pc |-> "start", result |-> Ok(<<>>)]]

\* init_crypto_provider: let mut result = Ok(()); TLS_INIT.call_once(..).
\* The first caller runs the closure; a caller that arrives while it runs
\* waits; a caller that arrives after it has run goes on at once
CallOnce(c) ==
    /\ callers[c].pc = "start"
    /\ \/ /\ once = "incomplete"
          /\ once' = "running"
          /\ callers' = [callers EXCEPT ![c].pc = "get_default"]
       \/ /\ once = "complete"
          /\ callers' = [callers EXCEPT ![c].pc = "return"]
          /\ UNCHANGED once
    /\ UNCHANGED <<provider, installs>>
    /\ InitOnly

\* The end of the closure: result = init_crypto_provider_internal(), and
\* TLS_INIT is complete
ClosureEnd(c, r) ==
    /\ callers' = [callers EXCEPT ![c].pc = "return", ![c].result = r]
    /\ installs' = Append(installs, r)
    /\ once' = "complete"

\* init_crypto_provider_internal: CryptoProvider::get_default() tells
\* whether a provider is installed
GetDefault(c) ==
    /\ callers[c].pc = "get_default"
    /\ IF provider # None
       THEN ClosureEnd(c, Ok(<<>>))
       ELSE /\ callers' = [callers EXCEPT ![c].pc = "install_default"]
            /\ UNCHANGED <<once, installs>>
    /\ UNCHANGED provider
    /\ InitOnly

\* init_crypto_provider_internal: CryptoProvider::install_default(provider)
\* fails when a default provider is installed
InstallDefault(c) ==
    /\ callers[c].pc = "install_default"
    /\ IF provider = None
       THEN /\ provider' = Some("aws_lc_rs")
            /\ ClosureEnd(c, Ok(<<>>))
       ELSE /\ UNCHANGED provider
            /\ ClosureEnd(c, ErrFmt("Other", "Failed to install aws-lc-rs crypto provider: {:?}", <<>>))
    /\ InitOnly

\* Other code of the process installs its default provider
ForeignInstall ==
    /\ provider = None
    /\ provider' = Some("foreign")
    /\ UNCHANGED <<once, installs, callers>>
    /\ InitOnly

\* init_crypto_provider returns its local result
ReturnResult(c) ==
    /\ callers[c].pc = "return"
    /\ callers' = [callers EXCEPT ![c].pc = "done"]
    /\ UNCHANGED <<once, provider, installs>>
    /\ InitOnly

NextInit ==
    \/ \E c \in CallerIds : CallOnce(c)
    \/ \E c \in CallerIds : GetDefault(c)
    \/ \E c \in CallerIds : InstallDefault(c)
    \/ \E c \in CallerIds : ReturnResult(c)
    \/ ForeignInstall

-----------------------------------------------------------------------------
(* SpecHeaders: a HeaderMap under insert, get, contains_key, remove and   *)
(* merge, and the header lookup of a parsed response                       *)

\* The header names and values the callers of SpecHeaders write
HeaderNames ==
    { <<"X", "-", "A">>, <<"x", "-", "a">>, <<"X", "-", "a">>,
      <<"B">>, <<"b">>, <<"a", SP, "b">>, <<>> }
HeaderValues == { <<"1">>, <<"2">>, <<LF, "x">>, <<"v", CR, LF>> }

\* The maps given to merge: new ones with at most one insert made
OtherMaps ==
    { HeaderMap_insert(HeaderMap_new, k, v).inner : k \in HeaderNames, v \in HeaderValues }

\* The responses whose headers are looked up: at most one header line
LookupParts ==
    { [status |-> [token |-> <<"2", "0", "0">>, code |-> 200],
       reason |-> [tokens |-> << <<"O", "K">> >>, sep |-> <<SP>>],
       headers |-> hs, body |-> <<>>] :
        hs \in UNION {SeqsOfLen(HeaderItems, n) : n \in 0..1} }

\* The names the headers of a parsed response are looked up with
LookupNames ==
    { S_content_type,
      <<"C", "o", "n", "t", "e", "n", "t", "-", "T", "y", "p", "e">>,
      <<"C", "O", "N", "T", "E", "N", "T", "-", "T", "Y", "P", "E">>,
      <<"x", "-", "a">>, <<"X", "-", "A">>, <<"X", "-", "a">>,
      S_content_encoding,
      <<"C", "o", "n", "t", "e", "n", "t", "-", "E", "n", "c", "o", "d", "i", "n", "g">> }

HeadersIdle ==
    /\ hmap = EmptyMap
    /\ hlast = [op |-> "idle"]

InitHeaders ==
    /\ hmap = HeaderMap_new
    /\ hlast = [op |-> "new"]

\* headers.insert(key, value)
HeaderInsert ==
    /\ \E key \in HeaderNames, value \in HeaderValues :
         \E r \in {HeaderMap_insert(hmap, key, value)} :
            /\ hmap' = r.inner
            /\ hlast' = [op |-> "insert", key |-> key, value |-> value,
                         ret |-> r.ret, before |-> hmap]
    /\ HeadersOnly

\* headers.get(key)
HeaderGet ==
    /\ \E key \in HeaderNames :
         hlast' = [op |-> "get", key |-> key, ret |-> HeaderMap_get(hmap, key)]
    /\ UNCHANGED hmap
    /\ HeadersOnly

\* headers.contains_key(key)
HeaderContainsKey ==
    /\ \E key \in HeaderNames :
         hlast' = [op |-> "contains_key", key |-> key,
                   ret |-> HeaderMap_contains_key(hmap, key)]
    /\ UNCHANGED hmap
    /\ HeadersOnly

\* headers.remove(key)
HeaderRemove ==
    /\ \E key \in HeaderNames :
         \E r \in {HeaderMap_remove(hmap, key)} :
            /\ hmap' = r.inner
            /\ hlast' = [op |-> "remove", key |-> key, ret |-> r.ret, before |-> hmap]
    /\ HeadersOnly

\* headers.merge(&other)
HeaderMerge ==
    /\ \E other \in OtherMaps :
         /\ hmap' = HeaderMap_merge(hmap, other)
         /\ hlast' = [op |-> "merge", other |-> other, before |-> hmap]
    /\ HeadersOnly

\* Response::from_raw_bytes of a raw response, whose headers are then looked
\* up with Response::get_header
HeaderParse ==
    /\ \E parts \in LookupParts, decoded \in DecoderOutcomes :
         hlast' = [op |-> "parse", headers |-> parts.headers,
                   ret |-> from_raw_bytes(WriteResponse(parts), decoded)]
    /\ UNCHANGED hmap
    /\ HeadersOnly

NextHeaders ==
    \/ HeaderInsert
    \/ HeaderGet
    \/ HeaderContainsKey
    \/ HeaderRemove
    \/ HeaderMerge
    \/ HeaderParse

-----------------------------------------------------------------------------
(* SpecTunnel: the read loop of establish_tunnel (src/connection/proxy.rs)  *)
(* on answers as long as the buffer and longer.  The answer of the proxy is *)
(* its first line, the number of bytes it sends before it closes and the    *)
(* offset at which its first CR LF CR LF ends; the bytes between are of no  *)
(* account to the loop, which counts them.                                  *)

\* Bound of SpecTunnel: the buffers an answer of the proxy may fill
MaxBuffers == 2

\* The first lines of the answers
TunnelHeads ==
    { <<"H", "T", "T", "P", "/", "1", ".", "1", SP, "2", "0", "0", SP, "O", "K">>,
      <<"H", "T", "T", "P", "/", "1", ".", "1", SP, "4", "0", "7", SP, "N", "o">> }

\* Numbers of bytes at and next to the multiples of the buffer size
TunnelLengths ==
    { k * BufferSize + d : k \in 0..MaxBuffers, d \in {-1, 0, 1} } \cap Nat

\* The answers: term is the number of bytes up to the end of the first
\* CR LF CR LF, 0 when the answer holds none.  An answer with a terminator
\* holds its first line before it
ProxyStreams ==
    UNION { { [head |-> h, len |-> l, term |-> t, pos |-> 0] :
                l \in TunnelLengths \cup {Len(h) + 4},
                t \in {0, Len(h) + 4} \cup {m \in TunnelLengths : m > Len(h) + 4} } :
            h \in TunnelHeads }

\* The numbers of bytes one read may return when rem bytes are yet to come:
\* a full buffer, one byte less, or half a buffer; 0 at the end of the stream
TunnelReadSizes(rem) ==
    { Min(rem, BufferSize), Min(rem, BufferSize - 1), Min(rem, BufferSize \div 2) }

\* response.contains("\r\n\r\n") once read bytes of the answer are in response
ResponseHoldsTerminator(stream, read) ==
    stream.term # 0 /\ read >= stream.term

\* response.lines().next() once read bytes of the answer are in response
ResponseFirstLine(stream, read) ==
    UpTo(stream.head, Min(read, Len(stream.head)))

TunnelIdle ==
    /\ pstream = [head |-> <<>>, len |-> 0, term |-> 0, pos |-> 0]
    /\ ploop = [total_read |-> 0, response_len |-> 0, state |-> "idle", result |-> Ok(<<>>)]

InitTunnel ==
    /\ pstream \in {ps \in ProxyStreams : ps.term <= ps.len}
    /\ ploop = [total_read |-> 0, response_len |-> 0, state |-> "reading", result |-> Ok(<<>>)]

\* establish_tunnel: one turn of the loop
EstablishTunnelRead ==
    /\ ploop.state = "reading"
    /\ \/ /\ ploop' = [ploop EXCEPT !.state = "done",
                          !.result = ErrFmt("Proxy", "Failed to read proxy response: {}", <<>>)]
          /\ UNCHANGED pstream
       \/ \E n \in TunnelReadSizes(pstream.len - pstream.pos) :
            /\ pstream' = [pstream EXCEPT !.pos = @ + n]
            /\ IF n = 0
               THEN ploop' = [ploop EXCEPT !.state = "left"]
               ELSE IF ResponseHoldsTerminator(pstream, ploop.response_len + n)
               THEN ploop' = [ploop EXCEPT !.total_read = @ + n, !.response_len = @ + n,
                                           !.state = "left"]
               ELSE IF ploop.total_read + n > BufferSize
               THEN ploop' = [ploop EXCEPT !.total_read = @ + n, !.response_len = @ + n,
                                           !.state = "done",
                                           !.result = Err("Proxy", "Proxy response too large")]
               ELSE ploop' = [ploop EXCEPT !.total_read = @ + n, !.response_len = @ + n]
    /\ TunnelOnly

\* establish_tunnel after the loop: the status of the first line
EstablishTunnelStatus ==
    /\ ploop.state = "left"
    /\ ploop' = [ploop EXCEPT !.state = "done",
                    !.result = establish_tunnel_status(
                                   ResponseFirstLine(pstream, ploop.response_len))]
    /\ UNCHANGED pstream
    /\ TunnelOnly

NextTunnel ==
    \/ EstablishTunnelRead
    \/ EstablishTunnelStatus

-----------------------------------------------------------------------------
(* The specifications                                                      *)

InitChunkedSpec ==
    /\ InitChunked
    /\ UrlIdle /\ RequestIdle /\ ResponseIdle /\ CallIdle
    /\ ClientIdle /\ OnceIdle /\ HeadersIdle /\ TunnelIdle
SpecChunked == InitChunkedSpec /\ [][NextChunked]_vars

InitUrlSpec ==
    /\ InitUrl
    /\ ChunkedIdle /\ RequestIdle /\ ResponseIdle /\ CallIdle
    /\ ClientIdle /\ OnceIdle /\ HeadersIdle /\ TunnelIdle
SpecUrl == InitUrlSpec /\ [][NextUrl]_vars

InitRequestSpec ==
    /\ InitRequest
    /\ ChunkedIdle /\ UrlIdle /\ ResponseIdle /\ CallIdle
    /\ ClientIdle /\ OnceIdle /\ HeadersIdle /\ TunnelIdle
SpecRequest == InitRequestSpec /\ [][NextRequest]_vars

InitResponseSpec ==
    /\ InitResponse
    /\ ChunkedIdle /\ UrlIdle /\ RequestIdle /\ CallIdle
    /\ ClientIdle /\ OnceIdle /\ HeadersIdle /\ TunnelIdle
SpecResponse == InitResponseSpec /\ [][NextResponse]_vars

InitCallSpec ==
    /\ InitCall
    /\ ChunkedIdle /\ UrlIdle /\ RequestIdle /\ ResponseIdle
    /\ ClientIdle /\ OnceIdle /\ HeadersIdle /\ TunnelIdle
SpecCall == InitCallSpec /\ [][NextCall]_vars

InitClientSpec ==
    /\ InitClient
    /\ ChunkedIdle /\ UrlIdle /\ RequestIdle /\ ResponseIdle
    /\ CallIdle /\ OnceIdle /\ HeadersIdle /\ TunnelIdle
SpecClient == InitClientSpec /\ [][NextClient]_vars

InitInitSpec ==
    /\ InitOnce
    /\ ChunkedIdle /\ UrlIdle /\ RequestIdle /\ ResponseIdle
    /\ CallIdle /\ ClientIdle /\ HeadersIdle /\ TunnelIdle
SpecInit == InitInitSpec /\ [][NextInit]_vars

InitHeadersSpec ==
    /\ InitHeaders
    /\ ChunkedIdle /\ UrlIdle /\ RequestIdle /\ ResponseIdle
    /\ CallIdle /\ ClientIdle /\ OnceIdle /\ TunnelIdle
SpecHeaders == InitHeadersSpec /\ [][NextHeaders]_vars

InitTunnelSpec ==
    /\ InitTunnel
    /\ ChunkedIdle /\ UrlIdle /\ RequestIdle /\ ResponseIdle
    /\ CallIdle /\ ClientIdle /\ OnceIdle /\ HeadersIdle
SpecTunnel == InitTunnelSpec /\ [][NextTunnel]_vars

-----------------------------------------------------------------------------
(* Claims                                                                  *)

(* C3: chunked round trip.  Parsing the framing of any body, cut into any   *)
(* non-empty chunks, with or without chunk extensions on the size lines and *)
(* ended by a zero-size chunk and an empty line, returns exactly the body.  *)
C3_RoundTrip ==
    cpc = "parsed" => cres = Ok(BodyOf(chunks))

\* A body holding CR LF, cut in two chunks, the first with an extension
C3_Witness ==
    /\ cpc = "parsed"
    /\ Len(chunks) >= 2
    /\ chunks[1].ext # <<>>
    /\ Position(BodyOf(chunks), CRLF) # -1
    /\ cres.ok

(* What the parts of an http(s) URL resolve to, given the path expected    *)
ExpectedTarget(c, path) ==
    [hostname |-> c.host,
     port |-> IF c.port # None THEN Unwrap(c.port)
              ELSE IF c.scheme = S_https THEN 443 ELSE 80,
     path |-> path,
     is_https |-> c.scheme = S_https]

C9_UrlParseError ==
    (upc = "resolved" /\ ucomp.kind # "ok") =>
        (~ures.ok /\ ures.kind = "UrlParse")

(* The header map the items of a response stand for: each key holds the    *)
(* value of the last item that names it                                     *)
RECURSIVE ExpectedHeaders(_, _)
ExpectedHeaders(items, map) ==
    IF items = <<>> THEN map
    ELSE ExpectedHeaders(Tail(items),
            IF Head(items).key = None THEN map
            ELSE Insert(map, Unwrap(Head(items).key), Head(items).value))

\* A Content-Encoding that names a compression is among the items
EncodingApplies(items) ==
    /\ S_content_encoding \in DOMAIN ExpectedHeaders(items, EmptyMap)
    /\ to_lowercase(ExpectedHeaders(items, EmptyMap)[S_content_encoding])
         \in {S_gzip, S_deflate, S_br}

\* The response the parts stand for
ExpectedResponse(c) ==
    [version |-> S_HTTP_1_1,
     status_code |-> c.status.code,
     status_message |-> Join(c.reason.tokens, <<SP>>),
     headers |-> ExpectedHeaders(c.headers, EmptyMap),
     body |-> c.body]

ResponseParsed == ppc = "parsed" /\ pparts.kind = "parts"

C11_AnyStatusCode ==
    (/\ ResponseParsed
     /\ pparts.parts.status.code # -1
     /\ pparts.parts.reason.tokens # <<>>) =>
        IF pres.ok
        THEN /\ pres.val.status_code = pparts.parts.status.code
             /\ is_success(pres.val) = (pres.val.status_code \in 200..299)
             /\ is_redirect(pres.val) = (pres.val.status_code \in 300..399)
             /\ is_client_error(pres.val) = (pres.val.status_code \in 400..499)
             /\ is_server_error(pres.val) = (pres.val.status_code \in 500..599)
             /\ Cardinality({p \in {"success", "redirect", "client", "server"} :
                                \/ p = "success" /\ is_success(pres.val)
                                \/ p = "redirect" /\ is_redirect(pres.val)
                                \/ p = "client" /\ is_client_error(pres.val)
                                \/ p = "server" /\ is_server_error(pres.val)})
                  = IF pres.val.status_code \in 200..599 THEN 1 ELSE 0
        ELSE /\ pres.kind = "Decompression"
             /\ EncodingApplies(pparts.parts.headers)

\* A response with status code 65535, outside every range, has been parsed
\* into a Response
C11_Witness ==
    /\ ResponseParsed
    /\ pres.ok
    /\ pparts.parts.status.code = 65535
    /\ pres.val.status_code = 65535
    /\ ~is_success(pres.val) /\ ~is_server_error(pres.val)

-----------------------------------------------------------------------------
(* Claims about the serialized request                                      *)

\* The lines of a serialized request before its blank line, and what follows it
WireHead(w) == Lines(UpTo(w, Position(w, CRLFCRLF)))
WireBody(w) == From(w, Position(w, CRLFCRLF) + 4)

\* The values of the header lines of a serialized request that carry the name
WireValues(w, name) ==
    { Trim(SubSeq(WireHead(w)[i], IndexOf(WireHead(w)[i], ":") + 1, Len(WireHead(w)[i]))) :
        i \in { j \in 2..Len(WireHead(w)) :
                  to_lowercase(SubSeq(WireHead(w)[j], 1, IndexOf(WireHead(w)[j], ":") - 1))
                    = to_lowercase(name) } }

Serialized == rpc = "serialized" /\ rser.ok

(* C5: in every serialized request, whatever headers the caller supplied,   *)
(* the Connection header on the wire is close and no Connection header with *)
(* another value is sent.                                                   *)
C5_ConnectionClose ==
    Serialized => WireValues(rser.val, S_Connection) = {S_close}

(* C6: when the request has a body, after any sequence of header() and      *)
(* body() calls the serialized form carries a Content-Length equal to the   *)
(* body's byte length and exactly that many body bytes follow the blank     *)
(* line; with no body no Content-Length is synthesized.                     *)
C6_ContentLength ==
    Serialized =>
        IF rq.body # None
        THEN /\ WireValues(rser.val, S_Content_Length) = {ToDec(Len(Unwrap(rq.body)))}
             /\ WireBody(rser.val) = Unwrap(rq.body)
        ELSE /\ WireBody(rser.val) = <<>>
             /\ S_Content_Length \notin DOMAIN rcaller.headers
                  => WireValues(rser.val, S_Content_Length) = {}

\* Every order of the keys
AllOrders(keys) ==
    {o \in [1..Cardinality(keys) -> keys] : \A i, j \in DOMAIN o : o[i] = o[j] => i = j}

(* C7: the serialized request is byte-exact: the request line, Host, one    *)
(* line per caller-supplied header, Connection: close, Content-Length only  *)
(* with a body, an empty line, the body; no other header line is there.     *)
C7_ByteExact ==
    Serialized =>
        \E parsed_url \in {parse_host_port(rq.url)} :
        \E order \in AllOrders(DOMAIN rcaller.headers) :
            rser.val =
                rq.method \o <<SP>> \o parsed_url.val.path \o <<SP>> \o S_HTTP_1_1 \o CRLF
                \o HeaderLine(S_Host, parsed_url.val.hostname)
                \o Flatten([i \in 1..Len(order) |->
                                HeaderLine(order[i], rcaller.headers[order[i]])])
                \o HeaderLine(S_Connection, S_close)
                \o (IF rq.body # None
                    THEN HeaderLine(S_Content_Length, ToDec(Len(Unwrap(rq.body))))
                    ELSE <<>>)
                \o CRLF
                \o (IF rq.body # None THEN Unwrap(rq.body) ELSE <<>>)

-----------------------------------------------------------------------------
(* Claims about the call                                                    *)

CallDone == pc = "done"

(* C1: when the response headers carry a Transfer-Encoding containing       *)
(* 'chunked' (any letter case), the body of the Response returned to the    *)
(* caller is the decoded chunk payload only: no chunk-size line, no chunk   *)
(* terminator, no trailer line.                                             *)
C1_Dechunked ==
    (CallDone /\ outcome.ok /\ scenario.framing = "chunked" /\ scenario.cut = 0) =>
        (is_chunked(outcome.val.headers) /\ outcome.val.body = scenario.payload)

(* C2: when the response is not chunked and declares Content-Length: N, and *)
(* the stream ends after fewer than N body bytes, the call fails (with a    *)
(* Response error) and returns no Response with a truncated body.           *)
C2_IncompleteBody ==
    (CallDone /\ scenario.framing = "length" /\ scenario.cut > 0) => ~outcome.ok

\* The second whitespace-delimited token of the first line of the proxy's
\* answer, as a number: -1 when there is no such token or it is no number
TunnelStatus ==
    IF tunnel.response = <<>> THEN -1
    ELSE IF Len(split_whitespace(Lines(tunnel.response)[1])) < 2 THEN -1
    ELSE FromStrRadix(split_whitespace(Lines(tunnel.response)[1])[2], 10, 65535)

(* C4: with a proxy configured the CONNECT request is the first write to    *)
(* the socket; establish_tunnel succeeds only if the second token of the    *)
(* first line of the proxy's answer is 200; with any other status code it   *)
(* fails with a Proxy error carrying that code, and every failure of the    *)
(* tunnel is a Proxy error; no TLS-handshake byte and no HTTP-request byte  *)
(* is written unless a 200 answer has been read before.                     *)
C4_Tunnel ==
    call.proxy =>
        /\ socket # <<>> =>
             socket[1] = [what |-> "connect",
                          bytes |-> ConnectRequest(Unwrap(target).hostname, Unwrap(target).port)]
        /\ (\E i \in DOMAIN socket : socket[i].what # "connect") => TunnelStatus = 200
        /\ tunnel.state = "established" => TunnelStatus = 200
        /\ pc \in {"serialize", "handshake", "write", "read"} => tunnel.state = "established"
        /\ tunnel.state = "refused" =>
             /\ pc = "done"
             /\ ~outcome.ok /\ outcome.kind = "Proxy"
             /\ TunnelStatus # 200
             /\ TunnelStatus # -1 =>
                  outcome = ErrFmt("Proxy", "Proxy connection failed: {}", ToDec(TunnelStatus))
        /\ tunnel.state = "failed" =>
             pc = "done" /\ ~outcome.ok /\ outcome.kind = "Proxy"

\* The proxy answered 407: the call has ended with the Proxy error of that
\* code and nothing but the CONNECT request was written
C4_Witness ==
    /\ call.proxy
    /\ CallDone
    /\ tunnel.state = "refused"
    /\ tunnel.total_read > MaxSegment
    /\ outcome = ErrFmt("Proxy", "Proxy connection failed: {}", <<"4", "0", "7">>)
    /\ Len(socket) = 1

\* A request has been written through a tunnel the proxy granted with 200
C4_WitnessGranted ==
    /\ call.proxy
    /\ tunnel.state = "established"
    /\ Len(socket) >= 2
    /\ socket[Len(socket)].what \in {"http", "tls_data"}

-----------------------------------------------------------------------------
(* Claims about the stages of a call                                        *)

\* The entries of the socket that are requests, and those that are CONNECTs
RequestsWritten == {i \in 1..Len(socket) : socket[i].what \in {"http", "tls_data"}}
ConnectsWritten == {i \in 1..Len(socket) : socket[i].what = "connect"}

\* The call has ended without a Response
CallFailed == pc = "done" /\ ~outcome.ok

\* Nothing of the stages after the connection is open has happened
NothingSent == request_str = <<>> /\ RequestsWritten = {} /\ received = <<>>

(* C12: every stage of a call fails fast.  The call opens at most one      *)
(* socket and writes at most one CONNECT and one request to it (no retry). *)
(* A call that ends without a Response returns an error value, which holds *)
(* no Response, and it is the error of the first stage that failed: a      *)
(* UrlParse error with no socket opened when the URL does not resolve, a   *)
(* Connection error with nothing written when the socket does not open, a  *)
(* Proxy error with no request serialized or written when the tunnel is    *)
(* not established, nothing read when the request was not written; a       *)
(* response that is read to its end and whose body its decoder rejects is  *)
(* a Decompression error.                                                   *)
C12_FailFast ==
    /\ sockets <= 1
    /\ Cardinality(RequestsWritten) <= 1
    /\ Cardinality(ConnectsWritten) <= 1
    /\ CallFailed =>
         /\ outcome.kind \in {"UrlParse", "Connection", "Proxy", "Tls", "Other",
                              "Response", "Decompression"}
         /\ "val" \notin DOMAIN outcome
         /\ target = None =>
              outcome.kind = "UrlParse" /\ sockets = 0 /\ socket = <<>> /\ NothingSent
         /\ (target # None /\ sockets = 0) =>
              outcome.kind = "Connection" /\ socket = <<>> /\ NothingSent
         /\ tunnel.state \in {"failed", "refused"} =>
              outcome.kind = "Proxy" /\ NothingSent
         /\ RequestsWritten = {} => received = <<>> /\ server_in = <<>>
         /\ (scenario.framing = "encoded" /\ server_in = <<>> /\ outcome.kind # "Other") =>
              outcome.kind = "Decompression"

(* C19: every failure of the TLS layer for an HTTPS target (the server     *)
(* name is invalid, the TLS session cannot be created, the handshake or    *)
(* the certificate check fails) ends the call with an error of kind Tls.   *)
C19_TlsKind ==
    [][(pc = "handshake" /\ pc' = "done") => outcome'.kind = "Tls"]_vars

\* The call reads from a peer that has sent all it will send and keeps the
\* stream open
Stalled == pc = "read" /\ server_in = <<>> /\ scenario.ends = "stall"

(* C20: a call whose peer stops sending without closing the stream does   *)
(* not wait forever.  While it waits it always has a step left to take:    *)
(* the expiry of the deadline set when the transport was opened, which     *)
(* ends the call with a Timeout error.                                     *)
C20_Deadline == Stalled => ENABLED ReadResponse

-----------------------------------------------------------------------------
(* Claims about concurrent calls                                           *)

\* The operations of the request cycle on stream k, in order: those that are
\* not the CONNECT exchange of the tunnel
CycleOf(k) ==
    SelectSeq(streams[k].log, LAMBDA e : e.op # "connect")

Ended(c) ==
    calls[c].pc \in {"done", "cancelled"}

\* C13: a transport is created only after URL resolution succeeded, is used
\* for exactly one write-then-read cycle (one write of the request, then
\* reads only, and a returned response has had both), and is closed on every
\* path out of the call: return, every error and cancellation; after the
\* call has ended its socket is not open, and no socket is open without a
\* call in flight that owns it.
C13_TransportLifecycle ==
    /\ \A c \in CallIds :
         /\ connection_of(c) # 0 => calls[c].parsed_url # None
         /\ connection_of(c) # 0 =>
              LET cycle == CycleOf(connection_of(c)) IN
                /\ \A i \in 1..Len(cycle) : cycle[i].op = (IF i = 1 THEN "request" ELSE "read")
                /\ (calls[c].pc = "done" /\ calls[c].result.ok) => Len(cycle) >= 2
         /\ (Ended(c) /\ connection_of(c) # 0) => ~streams[connection_of(c)].open
    /\ \A k \in 1..Len(streams) :
         streams[k].open => \E c \in CallIds : connection_of(c) = k /\ ~Ended(c)

\* Two calls that used a transport have ended, one by returning a response,
\* and their sockets are closed
C13_Witness ==
    /\ \A c \in CallIds :
         Ended(c) /\ connection_of(c) # 0 /\ ~streams[connection_of(c)].open
    /\ \E c \in CallIds : calls[c].pc = "done" /\ calls[c].result.ok
    /\ \E c \in CallIds :
         \/ calls[c].pc = "cancelled" /\ Len(CycleOf(connection_of(c))) >= 1
         \/ calls[c].pc = "done" /\ ~calls[c].result.ok

\* C14: under any interleaving each call owns its own transport: a call
\* opens at most one socket and no two calls hold the same one, every write
\* and read on a transport is made by the call that holds it, no transport
\* carries a second request, the response a call returns is built from the
\* bytes read on its own transport, and no step of a call modifies the
\* client (proxy configuration, default headers).
C14_Ownership ==
    /\ [](/\ Len(streams) <= MaxConcurrent
          /\ \A c, d \in CallIds :
               (c # d /\ connection_of(c) # 0) => connection_of(c) # connection_of(d)
          /\ \A k \in 1..Len(streams) :
               /\ \A i \in 1..Len(streams[k].log) :
                    connection_of(streams[k].log[i].by) = k
               /\ Cardinality({i \in 1..Len(streams[k].log) :
                                 streams[k].log[i].op = "request"}) <= 1
          /\ \A c \in CallIds :
               (calls[c].pc = "done" /\ calls[c].result.ok) =>
                  /\ connection_of(c) # 0
                  /\ calls[c].result.val.body = ToDec(connection_of(c))
                  /\ calls[c].raw_response = AnswerOn(connection_of(c)))
    /\ [][client' = client]_vars

\* Both calls have returned a response, each from its own transport, and
\* their reads were interleaved
C14_Witness ==
    /\ \A c \in CallIds : calls[c].pc = "done" /\ calls[c].result.ok
    /\ calls[1].result.val.body # calls[2].result.val.body
    /\ Len(streams) = 2
    /\ client.proxy_config # None

-----------------------------------------------------------------------------
(* Claims about init_crypto_provider                                       *)

\* C15: init_crypto_provider is init-once: for any number of concurrent
\* callers the installation runs at most once, no call returns before it
\* has finished, and every call reports the outcome of that one
\* initialization (no call reports success when it failed).
C15_InitOnce ==
    /\ Len(installs) <= 1
    /\ \A c \in CallerIds :
         callers[c].pc = "done" =>
            /\ once = "complete"
            /\ installs # <<>>
            /\ callers[c].result = installs[1]

-----------------------------------------------------------------------------
(* Claims about header lookup                                              *)

\* Two names that differ only in letter case
SameHeader(k1, k2) == to_lowercase(k1) = to_lowercase(k2)

\* C18: header lookup is case-insensitive in the header container and in
\* the parsed response: after any sequence of insert, remove and merge,
\* get(k) and contains_key(k) give the same result for every spelling of k
\* that differs only in letter case; an insert under one spelling replaces
\* the value stored under any other spelling and returns the value stored
\* before; a remove under one spelling removes the entry of every spelling;
\* and get_header finds a parsed header under any letter case.
C18_CaseInsensitiveLookup ==
    /\ \A k1, k2 \in HeaderNames :
         SameHeader(k1, k2) =>
            /\ HeaderMap_get(hmap, k1) = HeaderMap_get(hmap, k2)
            /\ HeaderMap_contains_key(hmap, k1) = HeaderMap_contains_key(hmap, k2)
            /\ HeaderMap_contains_key(hmap, k1) = (HeaderMap_get(hmap, k1) # None)
    /\ hlast.op = "insert" =>
         IF hlast.ret.ok
         THEN \A k \in HeaderNames :
                IF SameHeader(k, hlast.key)
                THEN /\ HeaderMap_get(hmap, k) = Some(hlast.value)
                     /\ hlast.ret.val = HeaderMap_get(hlast.before, k)
                ELSE HeaderMap_get(hmap, k) = HeaderMap_get(hlast.before, k)
         ELSE hmap = hlast.before
    /\ hlast.op = "remove" =>
         \A k \in HeaderNames :
            IF SameHeader(k, hlast.key)
            THEN /\ HeaderMap_get(hmap, k) = None
                 /\ hlast.ret = HeaderMap_get(hlast.before, k)
            ELSE HeaderMap_get(hmap, k) = HeaderMap_get(hlast.before, k)
    /\ hlast.op = "merge" =>
         \A k \in HeaderNames :
            HeaderMap_get(hmap, k) =
               IF HeaderMap_contains_key(hlast.other, k)
               THEN HeaderMap_get(hlast.other, k)
               ELSE HeaderMap_get(hlast.before, k)
    /\ (hlast.op = "parse" /\ hlast.ret.ok) =>
         \A name \in LookupNames :
            get_header(hlast.ret.val, name) =
               IF \E i \in 1..Len(hlast.headers) :
                     /\ hlast.headers[i].key # None
                     /\ SameHeader(name, Unwrap(hlast.headers[i].key))
               THEN Some(hlast.headers[1].value)
               ELSE None

\* An insert under one spelling has replaced the value stored under another
\* and returned it
C18_Witness ==
    /\ hlast.op = "insert"
    /\ hlast.ret.ok
    /\ hlast.key = <<"x", "-", "a">>
    /\ hlast.ret.val = Some(<<"1">>)
    /\ hlast.value = <<"2">>
    /\ HeaderMap_get(hlast.before, <<"X", "-", "A">>) = Some(<<"1">>)
    /\ HeaderMap_get(hmap, <<"X", "-", "A">>) = Some(<<"2">>)
    /\ DOMAIN hmap = {<<"x", "-", "a">>, <<"b">>}

-----------------------------------------------------------------------------
(* Claims about the header names of a request                              *)

\* The number of header lines of a serialized request that carry the name
WireCount(w, name) ==
    Cardinality({ j \in 2..Len(WireHead(w)) :
                    SameHeader(SubSeq(WireHead(w)[j], 1, IndexOf(WireHead(w)[j], ":") - 1),
                               name) })

\* C16: the header names of a request are case-insensitive with last write
\* wins: after any sequence of header() calls two names that differ only in
\* letter case are one entry of the request, the entry carries the value
\* written last under any of the spellings, and the serialized request has
\* one line for it, with that value (Connection and Content-Length, which
\* serialize_to_string writes itself, are left to C5 and C6).
C16_CaseInsensitiveNames ==
    /\ \A k1, k2 \in DOMAIN rq.headers : SameHeader(k1, k2) => k1 = k2
    /\ \A k \in DOMAIN rcaller.headers :
         /\ k \in DOMAIN rq.headers
         /\ rq.headers[k] = rcaller.last[to_lowercase(k)]
    /\ Serialized =>
         \A k \in DOMAIN rcaller.headers \ {S_Connection, S_Content_Length} :
            /\ WireCount(rser.val, k) = 1
            /\ WireValues(rser.val, k) = {rcaller.last[to_lowercase(k)]}

\* C17: default headers are applied without overwriting the headers of the
\* caller: for every name the caller supplied, names compared without
\* regard to letter case, the request sent carries the value of the caller
\* and no entry with the default value of the client for that name; a
\* default is added for the names the caller did not supply.
C17_CallerWins ==
    rclient # None =>
        /\ \A k \in DOMAIN rcaller.headers :
             /\ k \in DOMAIN rq.headers
             /\ rq.headers[k] = rcaller.headers[k]
             /\ \A d \in DOMAIN Unwrap(rclient).default_headers :
                  SameHeader(d, k) =>
                     ~\E j \in DOMAIN rq.headers :
                          /\ SameHeader(j, k)
                          /\ rq.headers[j] = Unwrap(rclient).default_headers[d]
        /\ \A d \in DOMAIN Unwrap(rclient).default_headers :
             (~\E k \in DOMAIN rcaller.headers : SameHeader(d, k)) =>
                 /\ d \in DOMAIN rq.headers
                 /\ rq.headers[d] = Unwrap(rclient).default_headers[d]

-----------------------------------------------------------------------------
(* Claims about the body of a response                                     *)

\* The call has read the answer of the server to its end, no read failed
AnswerRead ==
    /\ CallDone
    /\ scenario.framing \in {"length", "close"}
    /\ scenario.cut = 0
    /\ server_in = <<>>
    /\ WireBody(received) = scenario.payload
    /\ ~(~outcome.ok /\ outcome.msg = "Failed to read response: {}")

\* C21: a response body is delivered byte for byte: for every byte sequence
\* received after the header boundary, with no Content-Encoding, bytes that
\* are not valid UTF-8 included, the call returns a response whose body is
\* those bytes, and never an error.
C21_BodyVerbatim ==
    AnswerRead => (outcome.ok /\ outcome.val.body = scenario.payload)

-----------------------------------------------------------------------------
(* Claims about header validation                                          *)

\* C22: HeaderMap::insert returns an error and leaves the map unchanged
\* when the name is empty or holds a control character, a space or a tab,
\* or when the value holds a CR or LF, at its start or later; so no value
\* stored in the map holds a CR or LF.
C22_InsertValidates ==
    /\ hlast.op = "insert" =>
         ((\/ hlast.key = <<>>
           \/ \E i \in 1..Len(hlast.key) : hlast.key[i] \in {CR, LF, HT, SP}
           \/ \E i \in 1..Len(hlast.value) : hlast.value[i] \in {CR, LF})
            => (~hlast.ret.ok /\ hmap = hlast.before))
    /\ \A k \in DOMAIN hmap : \A i \in 1..Len(hmap[k]) : hmap[k][i] \notin {CR, LF}

-----------------------------------------------------------------------------
(* Claims about the request line                                           *)

\* The text of a URL after scheme://host[:port], its query and its path as
\* they are written in it
UrlAfterAuthority(url) ==
    LET rest == From(url, Position(url, <<":", "/", "/">>) + 3)
    IN  IF IndexOf(rest, "/") = 0 THEN <<>>
        ELSE SubSeq(rest, IndexOf(rest, "/"), Len(rest))
UrlQueryText(url) ==
    IF IndexOf(url, "?") = 0 THEN <<>> ELSE SubSeq(url, IndexOf(url, "?") + 1, Len(url))
UrlPathText(url) ==
    IF SplitNext(UrlAfterAuthority(url), "?") = <<>> THEN <<"/">>
    ELSE SplitNext(UrlAfterAuthority(url), "?")

\* C23: the request line of a serialized request holds the path of the URL
\* only: it is METHOD, the path ("/" for a URL with no path) and HTTP/1.1,
\* and the query of the URL is nowhere in the serialized request.
C23_RequestLinePathOnly ==
    Serialized =>
        /\ UpTo(rser.val, Position(rser.val, CRLF))
             = rq.method \o <<SP>> \o UrlPathText(rq.url) \o <<SP>> \o S_HTTP_1_1
        /\ UrlQueryText(rq.url) # <<>> => ~Contains(rser.val, UrlQueryText(rq.url))
        /\ ~Contains(rser.val, <<":", "/", "/">>)

\* A request for a URL with a path and a query is serialized, a header and
\* a body set, and its line is POST /path HTTP/1.1
C23_Witness ==
    /\ Serialized
    /\ UrlQueryText(rq.url) = <<"q", "=", "v">>
    /\ rq.body # None
    /\ rcaller.headers # EmptyMap
    /\ WireHead(rser.val)[1] = <<"P", "O", "S", "T", SP, "/", "p", "a", "t", "h", SP>> \o S_HTTP_1_1

-----------------------------------------------------------------------------
(* Claims about the read loop of establish_tunnel                          *)

\* C24: establish_tunnel succeeds only after it has read the header block
\* of the proxy up to and including the first CR LF CR LF, and it has then
\* taken no byte past that terminator from the stream; a proxy that closes
\* the stream before the terminator never yields success.
C24_TunnelBoundary ==
    tunnel.state = "established" =>
        /\ Contains(tunnel.response, CRLFCRLF)
        /\ Len(tunnel.response) = Position(tunnel.response, CRLFCRLF) + 4

\* The proxy sends more than a buffer of bytes and no terminator ends among
\* the first BufferSize of them
NoTerminatorInBuffer ==
    /\ pstream.len > BufferSize
    /\ pstream.term = 0 \/ pstream.term > BufferSize

\* C25: the read of the answer to CONNECT is bounded by the buffer of 8 KiB:
\* however the bytes of the proxy are split across reads, establish_tunnel
\* never holds more than 8192 bytes of the answer, and it fails with a Proxy
\* error whenever the terminator has not come within the first 8192 bytes.
C25_BoundedRead ==
    /\ ploop.response_len <= BufferSize
    /\ (ploop.state = "done" /\ NoTerminatorInBuffer) =>
          (~ploop.result.ok /\ ploop.result.kind = "Proxy")

-----------------------------------------------------------------------------
(* Claims about malformed chunk framing                                    *)

\* The stream has been parsed, whichever way it ended
ChunkedDone == cpc \in {"parsed", "answered"}

ResponseError(r) == ~r.ok /\ r.kind = "Response"

\* C26: after the payload of every chunk but the last the decoder wants
\* CR LF: when they are there they are dropped and never reach the output,
\* and a stream with any other two bytes in their place is rejected with a
\* Response error.
C26_ChunkEndChecked ==
    /\ (cpc = "parsed" /\ chunks # <<>>) => (cres.ok /\ cres.val = BodyOf(chunks))
    /\ (cpc = "answered" /\ cend.fault = "bad_end") => ResponseError(cres)

\* C27: malformed framing gives a Response error and never a partial body:
\* a stream with no CR LF where a size line is read (the empty stream too),
\* a size line whose part before ';' is no hexadecimal integer, and a chunk
\* with fewer than size + 2 bytes left after its size line.
C27_MalformedRejected ==
    (cpc = "answered" /\ cend.fault \in {"no_crlf", "bad_size", "short"}) =>
        ResponseError(cres)

\* The bytes that stand only in trailer lines and behind the empty line
TrailerOnlyBytes == {"T", ":", "v", "Z"}

\* C28: a chunk of size 0 is the last one: the decoder passes over trailer
\* lines up to an empty line and stops.  The result is exactly the payloads
\* of the chunks before it (empty when it comes first); nothing of a trailer
\* line and nothing behind the empty line is in it; and a stream that stops
\* before the empty line is a Response error.
C28_TerminalChunk ==
    /\ cpc = "parsed" =>
          /\ cres.ok
          /\ cres.val = BodyOf(chunks)
          /\ chunks = <<>> => cres.val = <<>>
          /\ \A i \in 1..Len(cres.val) : cres.val[i] \notin TrailerOnlyBytes
    /\ (cpc = "answered" /\ cend.fault = "trailer_cut") => ResponseError(cres)

\* Chunks, then a zero-size chunk with two trailer lines (one of them "0")
\* and a byte behind the empty line
C28_Witness ==
    /\ cpc = "parsed"
    /\ chunks # <<>>
    /\ Contains(cend.tail, TrailerLine \o CRLF \o <<"0">> \o CRLFCRLF \o <<"Z">>)
    /\ cres.ok
    /\ cres.val = BodyOf(chunks)

-----------------------------------------------------------------------------
(* Claims about malformed header lines of a response                       *)

\* The header block holds a line with no ':'
HasMalformedHeaderLine ==
    \E i \in 1..Len(pparts.parts.headers) : pparts.parts.headers[i].key = None

\* C29: a non-empty line after the status line that holds no ':' makes the
\* response parser fail with a Response (HttpParse) error; no response is
\* returned for such an input.
C29_MalformedHeaderRejected ==
    (ResponseParsed /\ HasMalformedHeaderLine) =>
        (~pres.ok /\ pres.kind \in {"Response", "HttpParse"})

-----------------------------------------------------------------------------
(* Claims about the totality of ChunkedParser::parse                       *)

\* C30: ChunkedParser::parse is total: on every finite input it ends and
\* returns Ok or a Response error.  A size line declaring a size near the
\* maximum of the machine word, for which size + 2 is beyond the word, is
\* answered with a Response error: no arithmetic overflow, no length check
\* on a wrapped sum, no slice out of range.
C30_ParseTotal ==
    ChunkedDone => (cres.ok \/ ResponseError(cres))

====
